---- MODULE Spec2Model ----
(***************************************************************************)
(* OAS Adherence Test Suite: the schema-driven data engine.                *)
(*                                                                         *)
(*   src/src/validator.js            validateDataAgainstSchema             *)
(*   src/src/generators/good_data.js getMockData                           *)
(*   src/src/generators/bad_data.js  getDataDeficientBy*                   *)
(*   src/unnamed/part_008            utils/app: getRandomNumber, ...       *)
(*   src/unnamed/part_007            testsuite_runner: runTestSuite        *)
(*   src/src/testcase_runner.js      the worker of an api endpoint         *)
(*   src/src/utils/oas.js            verifyApiEndpoints                    *)
(*                                                                         *)
(* JSON values are tagged tuples, numbers are counted in tenths (15 is     *)
(* 1.5), an optional field of a schema is the empty tuple when the field   *)
(* is undefined and a one-element tuple when it is set.                    *)
(***************************************************************************)
EXTENDS Integers, Sequences, FiniteSets, TLC

VARIABLES
  schema,            \* the schema under test
  data,              \* the value last supplied or generated
  origin,            \* how data was produced
  record,            \* the deficiency record data was taken from
  generatorOptions,  \* the options of the last deficient-generator call
  options,           \* the options of the last validation
  result,            \* the outcome of the last validation of data
  givenOverrides,    \* the overrides of the last getMockData call
  overridesAfterCall, \* the overrides that were passed, as the call left them
  testParams,           \* the test suite and the api endpoints to test
  runTestSuiteCalled,   \* runTestSuite() has run
  activeChildProcesses, \* the coordinator's count of workers still to report
  childProcesses,       \* the forked workers, in the order of their fork
  testVerdictCounter,   \* the coordinator's pass/fail counter
  testSummaries,        \* how many times the test summary was displayed
  oasApiEndpoints,      \* the api endpoints getApiEndpoints read from the doc
  apiEndpoints,         \* the list handed to verifyApiEndpoints
  apiEndpointsVerified, \* verifyApiEndpoints(apiEndpoints) has run
  workerStep,           \* how far the worker is in its message handler
  workerMessage,        \* the message the worker received
  workerOutcomes,       \* what became of each request the worker made
  workerTestResults,    \* testResults of the worker's message handler
  workerSent            \* what the worker sent to the coordinator

engineVars ==
  <<schema, data, origin, record, generatorOptions, options, result,
    givenOverrides, overridesAfterCall>>

runnerVars ==
  <<testParams, runTestSuiteCalled, activeChildProcesses, childProcesses,
    testVerdictCounter, testSummaries>>

setupVars == <<oasApiEndpoints, apiEndpoints, apiEndpointsVerified>>

\* what the operations of one part leave alone
workerVars ==
  <<workerStep, workerMessage, workerOutcomes, workerTestResults, workerSent>>

besidesEngine == <<runnerVars, setupVars, workerVars>>
besidesRunner == <<engineVars, setupVars, workerVars>>
besidesSetup == <<engineVars, runnerVars, workerVars>>
besidesWorker == <<engineVars, runnerVars, setupVars>>

vars == <<engineVars, runnerVars, setupVars, workerVars>>

----------------------------------------------------------------------------
(* JavaScript values *)

Undefined == <<"undefined">>
Null == <<"null">>
Bool(b) == <<"boolean", b>>
Num(n) == <<"number", n>>
Whole(n) == <<"number", n * 10>>
Str(s) == <<"string", s>>
Arr(a) == <<"array", a>>
Obj(f) == <<"object", f>>
ThrownValue == <<"throw">>

\* an object that is reached through a reference held elsewhere: what is
\* written to it is seen by every holder of the reference
Shared(f, reference) == <<"object", f, reference>>

IsShared(d) == d[1] = "object" /\ Len(d) = 3

EmptyObject == Obj([k \in {} |-> Undefined])

\* typeof: null, arrays and objects are all 'object'
typeof(d) ==
  CASE d[1] = "undefined" -> "undefined"
    [] d[1] = "null" -> "object"
    [] d[1] = "array" -> "object"
    [] d[1] = "object" -> "object"
    [] OTHER -> d[1]

isArray(d) == d[1] = "array"

\* a test that takes every number for an integer
isIntegerOrNumber(d) == d[1] = "number"

\* is-integer: a finite number with no fractional part
isInteger(d) == d[1] = "number" /\ d[2] % 10 = 0

NumericStrings == {"1", "42"}

\* is-number: a finite number, or a string that reads as one
isNumber(d) ==
  \/ d[1] = "number"
  \/ d[1] = "string" /\ d[2] \in NumericStrings

\* a === b: by value for primitives, by reference for arrays and objects
StrictEquals(a, b) ==
  \/ /\ a[1] = b[1]
     /\ a[1] \in {"undefined", "null", "boolean", "number", "string"}
     /\ a = b
  \/ IsShared(a) /\ IsShared(b) /\ a[3] = b[3]

\* Object.keys(...).sort(), and the insertion order of the literals used here
KeyOrder == <<"a", "b", "name", "x">>

IsKey(f, k) == k \in DOMAIN f

Keys(f) == SelectSeq(KeyOrder, LAMBDA k : IsKey(f, k))

\* data[key]
Prop(d, k) == IF k \in DOMAIN d[2] THEN d[2][k] ELSE Undefined

----------------------------------------------------------------------------
(* Schemas *)

DataTypeINTEGER == "integer"
DataTypeNUMBER == "number"
DataTypeSTRING == "string"
DataTypeARRAY == "array"
DataTypeOBJECT == "object"
DataTypeBOOLEAN == "boolean"

SchemaFormats == {"email", "uuid", "uri", "ipv4", "ipv6"}

NoSchema == <<>>

Blank ==
  [type |-> "", enum |-> <<>>, oneOf |-> <<>>, properties |-> <<>>,
   required |-> <<>>, items |-> <<>>, minimum |-> <<>>, maximum |-> <<>>,
   minLength |-> <<>>, maxLength |-> <<>>, format |-> "", pattern |-> ""]

Typed(t) == [Blank EXCEPT !.type = t]

\* JavaScript truthiness of an optional number: undefined and 0 are falsy
Truthy(n) == n # <<>> /\ n[1] # 0

----------------------------------------------------------------------------
(* Library predicates used by the string validator *)

Emails == {"abilash@gmail.com", "Abi.Lash@yahoo.com"}
UUIDs == {"43c13c2e-c3d6-11ea-87d0-0242ac130003"}
URLs == {"www.guru99.com", "http://abi.lash.org"}

isEmail(s) == s \in Emails
isUUID(s) == s \in UUIDs
isURL(s) == s \in URLs

\* ipRegex.v4(data) and ipRegex.v6(data) build a RegExp object, whatever the
\* argument: the value tested by the code is that object, which is truthy.
ipRegexV4(s) == TRUE
ipRegexV6(s) == TRUE

ValidPattern == "^[0-9]{3}-[0-9]{2}$"
InvalidPattern == "["

\* new RegExp(pattern) throws for a pattern that does not compile
Compiles(p) == p # InvalidPattern

PatternMatches == {"123-12", "000-00"}

\* regex.test(data)
RegexTest(p, s) == s \in PatternMatches

----------------------------------------------------------------------------
(* validator.js *)

Error(t, k, v, detail) ==
  [errorType |-> t, key |-> k, value |-> v, detail |-> detail]

Err(t, k, v) == Error(t, k, v, "")

Ok(errs) == [thrown |-> FALSE, errors |-> errs]

Thrown == [thrown |-> TRUE, errors |-> <<>>]

RECURSIVE ConcatErrors(_)
ConcatErrors(rs) ==
  IF Len(rs) = 0 THEN <<>> ELSE rs[1].errors \o ConcatErrors(Tail(rs))

\* errors = errors.concat(child) over a forEach: an exception in one child
\* leaves the loop and the function
ConcatResults(rs) ==
  IF \E i \in 1..Len(rs) : rs[i].thrown THEN Thrown ELSE Ok(ConcatErrors(rs))

isBoolean(d, s, opts, identifier) ==
  IF ~(d = Bool(TRUE) \/ d = Bool(FALSE))
  THEN Ok(<<Err("Boolean Error", identifier, d)>>)
  ELSE Ok(<<>>)

\* (low && data < low) || (high && data > high)
OutOfBounds(n, low, high) ==
  \/ Truthy(low) /\ n < low[1]
  \/ Truthy(high) /\ n > high[1]

validateNumberAgainstSchema(d, s, opts, identifier) ==
  IF ~isNumber(d)
  THEN Ok(<<Err("DataType Error", identifier, d)>>)
  ELSE IF d[1] = "number" /\ OutOfBounds(d[2], s.minimum, s.maximum)
       THEN Ok(<<Err("Number Range Error", identifier, d)>>)
       ELSE Ok(<<>>)

validateIntegerAgainstSchema(d, s, opts, identifier) ==
  IF ~isInteger(d)
  THEN Ok(<<Err("DataType Error", identifier, d)>>)
  ELSE IF OutOfBounds(d[2], s.minimum, s.maximum)
       THEN Ok(<<Err("Integer Range Error", identifier, d)>>)
       ELSE Ok(<<>>)

FormatError(format, s) ==
  CASE format = "email" -> ~isEmail(s)
    [] format = "uuid" -> ~isUUID(s)
    [] format = "uri" -> ~isURL(s)
    [] format = "ipv4" -> ~ipRegexV4(s)
    [] format = "ipv6" -> ~ipRegexV6(s)
    [] OTHER -> FALSE

\* (low && data.length < low) || (high && data.length > high)
LengthOutOfBounds(s, low, high) ==
  \/ Truthy(low) /\ Len(s) < low[1]
  \/ Truthy(high) /\ Len(s) > high[1]

\* a default case that only warns: logger['warn'](errorInfo)
LimitedSupportWarned(format) == <<>>

\* the default case of the switch over schema.format: the error is pushed
LimitedSupport(format) ==
  IF format \notin SchemaFormats
  THEN <<Err("Limited Support Error", "", Undefined)>> ELSE <<>>

\* a catch block that reports the pattern as not matched
PatternErrorsAsMismatch(pattern, d, identifier) ==
  IF ~Compiles(pattern) \/ ~RegexTest(pattern, d[2])
  THEN <<Err("Regex Mismatch Error", identifier, d)>>
  ELSE <<>>

\* try { new RegExp(schema.pattern); regex.test(data) } catch (err) { ... }
PatternErrors(pattern, d, identifier) ==
  IF ~Compiles(pattern)
  THEN <<Err("OAS 3.0 Error", identifier, d)>>
  ELSE IF ~RegexTest(pattern, d[2])
       THEN <<Err("Regex Mismatch Error", identifier, d)>>
       ELSE <<>>

\* a string check that goes on to the next rule after each rule
validateStringCombined(d, s, opts, identifier) ==
  IF typeof(d) # DataTypeSTRING
  THEN Ok(<<Err("DataType Error", identifier, d)>>)
  ELSE Ok((IF s.format # ""
           THEN LimitedSupport(s.format)
                \o (IF FormatError(s.format, d[2])
                    THEN <<Err("Format Error", identifier, d)>> ELSE <<>>)
           ELSE <<>>)
          \o (IF s.pattern # "" THEN PatternErrors(s.pattern, d, identifier)
              ELSE <<>>)
          \o (IF LengthOutOfBounds(d[2], s.minLength, s.maxLength)
              THEN <<Err("String Length Error", identifier, d)>>
              ELSE <<>>))

validateStringAgainstSchema(d, s, opts, identifier) ==
  IF typeof(d) # DataTypeSTRING
  THEN Ok(<<Err("DataType Error", identifier, d)>>)
  ELSE IF s.format # ""
  THEN Ok(LimitedSupport(s.format)
          \o (IF FormatError(s.format, d[2])
              THEN <<Err("Format Error", identifier, d)>> ELSE <<>>))
  ELSE IF s.pattern # ""
  THEN Ok(PatternErrors(s.pattern, d, identifier))
  ELSE IF LengthOutOfBounds(d[2], s.minLength, s.maxLength)
       THEN Ok(<<Err("String Length Error", identifier, d)>>)
       ELSE Ok(<<>>)

\* the loop over the sorted keys that reports a key equal to its predecessor
DuplicateKeyErrors(d, keys, identifier) ==
  LET dup == SelectSeq([i \in 1..Len(keys) |-> i],
                 LAMBDA i : /\ i > 1
                            /\ keys[i] = keys[i - 1]
                            /\ ~(i > 3 /\ keys[i] = keys[i - 2]))
  IN [j \in 1..Len(dup) |-> Err("Duplicate Key Error", identifier, d)]

RequiredKeyErrors(d, s, identifier) ==
  IF s.required = <<>> THEN <<>>
  ELSE LET req == s.required[1]
           missing == SelectSeq(req, LAMBDA k : Prop(d, k) = Undefined)
       IN [j \in 1..Len(missing) |->
             Error("Required Key Error", identifier, d, missing[j])]

\* a loop that keeps only the comparison with the last item of the enum
EnumIsValidLastOnly(d, items) ==
  Len(items) > 0 /\ StrictEquals(d, items[Len(items)])

\* items.forEach(item => isValid = (data === item) ? true : isValid)
EnumIsValid(d, items) ==
  \E i \in 1..Len(items) : StrictEquals(d, items[i])

\* an excess of data that is reported whatever the options
ExcessOfDataAlways(d, opts, identifier) ==
  Ok(<<Err("Excess of Data Error", identifier, d)>>)

\* if (options.strictValidation) errors.push(errorInfo)
ExcessOfData(d, opts, identifier) ==
  Ok(IF opts.strictValidation
     THEN <<Err("Excess of Data Error", identifier, d)>> ELSE <<>>)

RECURSIVE validateDataAgainstSchema(_, _, _, _)

validateArrayAgainstSchema(d, s, opts, identifier) ==
  LET itemSchema == s.items
      items == d[2]
  IN ConcatResults([i \in 1..Len(items) |->
       validateDataAgainstSchema(items[i], itemSchema, opts, identifier)])

validateObjectAgainstSchema(d, s, opts, identifier) ==
  IF typeof(d) # DataTypeOBJECT \/ isArray(d)
  THEN Ok(<<Err("DataType Error", identifier, d)>>)
  ELSE IF s.properties = <<>>
  THEN Ok(<<Err("OAS 3.0 Error", identifier, d)>>)
  ELSE IF d = Null
  THEN Thrown   \* Object.keys(null): TypeError
  ELSE LET keys == Keys(d[2])
           dups == DuplicateKeyErrors(d, keys, identifier)
           reqs == RequiredKeyErrors(d, s, identifier)
           props == s.properties[1]
       IN IF Len(dups) > 0 THEN Ok(dups)
          ELSE IF Len(reqs) > 0 THEN Ok(reqs)
          ELSE ConcatResults([i \in 1..Len(keys) |->
                 validateDataAgainstSchema(
                   d[2][keys[i]],
                   IF IsKey(props, keys[i]) THEN <<props[keys[i]]>> ELSE NoSchema,
                   opts, identifier \o "." \o keys[i])])

validateDataAgainstSchema(d, sOpt, opts, identifier) ==
  IF sOpt = NoSchema
  THEN ExcessOfData(d, opts, identifier)
  ELSE LET s == sOpt[1] IN
  IF d = Undefined
  THEN Ok(<<Err("Lack of Data Error", identifier, d)>>)
  ELSE IF s.oneOf # <<>>
  THEN LET schemas == s.oneOf[1]
           childErrors == [i \in 1..Len(schemas) |->
             validateDataAgainstSchema(d, <<schemas[i]>>, opts, identifier)]
       IN IF \E i \in 1..Len(schemas) : childErrors[i].thrown THEN Thrown
          ELSE IF \E i \in 1..Len(schemas) : Len(childErrors[i].errors) = 0
               THEN Ok(<<>>)
               ELSE Ok(<<Err("oneOf Error", identifier, d)>>)
  ELSE IF /\ s.type # typeof(d)
          /\ ~(s.type = DataTypeINTEGER /\ isInteger(d))
          /\ ~(s.type = DataTypeARRAY /\ isArray(d))
  THEN Ok(<<Err("DataType Error", identifier, d)>>)
  ELSE IF s.enum # <<>>
  THEN IF EnumIsValid(d, s.enum[1])
       THEN Ok(<<>>)
       ELSE Ok(<<Err("Enum Error", identifier, d)>>)
  ELSE CASE s.type = DataTypeBOOLEAN -> isBoolean(d, s, opts, identifier)
         [] s.type = DataTypeNUMBER ->
              validateNumberAgainstSchema(d, s, opts, identifier)
         [] s.type = DataTypeINTEGER ->
              validateIntegerAgainstSchema(d, s, opts, identifier)
         [] s.type = DataTypeSTRING ->
              validateStringAgainstSchema(d, s, opts, identifier)
         [] s.type = DataTypeARRAY ->
              validateArrayAgainstSchema(d, s, opts, identifier)
         [] s.type = DataTypeOBJECT ->
              validateObjectAgainstSchema(d, s, opts, identifier)
         [] OTHER -> Ok(<<>>)

----------------------------------------------------------------------------
(* Math.random() *)

\* Math.random() returns k / RandomSteps for a draw k in 0..RandomSteps-1.
RandomSteps == 10

\* The draws of one call are a vector of RandomPeriod draws; the draw used at
\* a point of the traversal is picked by the position of that point.
RandomPeriod == 2

RandomDraws == {0, RandomSteps \div 2, RandomSteps - 1}

RandomVectors == [1..RandomPeriod -> RandomDraws]

Random(rnd, pos) == rnd[(pos % Len(rnd)) + 1]

\* Math.floor(Math.random() * n)
RandomIndex(rnd, pos, n) == (Random(rnd, pos) * n) \div RandomSteps

----------------------------------------------------------------------------
(* utils/app *)

\* Stand-in for Number.MAX_SAFE_INTEGER (2^53 - 1), in whole units
MAX_SAFE_INTEGER == 1000

MIN_SAFE_INTEGER == -MAX_SAFE_INTEGER

\* division that rounds toward zero
TruncDiv(a, b) == IF a >= 0 THEN a \div b ELSE -((-a) \div b)

\* Math.trunc on tenths
Trunc(n) == TruncDiv(n, 10) * 10

\* low and high are optional numbers in tenths; r is the draw of Math.random()
getRandomNumber(low, high, returnInteger, r) ==
  LET lo == IF Truthy(low) THEN low[1] ELSE MIN_SAFE_INTEGER * 10
      hi == IF Truthy(high) THEN high[1] ELSE MAX_SAFE_INTEGER * 10
      res == TruncDiv(r * (hi - lo), RandomSteps) + lo
  IN IF returnInteger THEN Trunc(res) ELSE res

characters ==
  <<"A", "B", "C", "D", "E", "F", "G", "H", "I", "J", "K", "L", "M",
    "N", "O", "P", "Q", "R", "S", "T", "U", "V", "W", "X", "Y", "Z",
    "a", "b", "c", "d", "e", "f", "g", "h", "i", "j", "k", "l", "m",
    "n", "o", "p", "q", "r", "s", "t", "u", "v", "w", "x", "y", "z",
    "0", "1", "2", "3", "4", "5", "6", "7", "8", "9">>

RECURSIVE getRandomStringFrom(_, _, _, _)
getRandomStringFrom(index, length, rnd, pos) ==
  IF index >= length THEN ""
  ELSE characters[RandomIndex(rnd, pos + index, Len(characters)) + 1]
       \o getRandomStringFrom(index + 1, length, rnd, pos)

getRandomString(length, rnd, pos) == getRandomStringFrom(0, length, rnd, pos)

\* overrides = {}
NoOverrides == EmptyObject

\* JSONPath(jsonpath, overrides) for the paths made of '$' and '.key' steps:
\* the values of the tree the path leads to, found by walking the tree from
\* the path of its root
RECURSIVE JSONPathFrom(_, _, _)
JSONPathFrom(path, tree, jsonpath) ==
  IF path = jsonpath THEN <<tree>>
  ELSE IF tree[1] = "object" /\ Len(path) < Len(jsonpath)
  THEN LET keys == Keys(tree[2])
           found == SelectSeq(keys, LAMBDA key :
                      JSONPathFrom(path \o "." \o key, tree[2][key],
                                   jsonpath) # <<>>)
       IN IF found = <<>> THEN <<>>
          ELSE JSONPathFrom(path \o "." \o found[1], tree[2][found[1]],
                            jsonpath)
  ELSE <<>>

JSONPath(jsonpath, overrides) == JSONPathFrom("$", overrides, jsonpath)

\* a lookup that finds no value in the overrides
overriddenNever(jsonpath, overrides) ==
  jsonpath # "$" /\ Len(<<>>) > 0

overridden(jsonpath, overrides) ==
  jsonpath # "$" /\ Len(JSONPath(jsonpath, overrides)) > 0

----------------------------------------------------------------------------
(* generators/good_data.js *)

FakerEmails == <<"Abi.Lash@yahoo.com", "abilash@gmail.com">>
FakerUUIDs == <<"43c13c2e-c3d6-11ea-87d0-0242ac130003">>
FakerURLs == <<"http://abi.lash.org">>
FakerIPv4s == <<"69.89.31.226">>
FakerIPv6s == <<"2002:4559:1fe2:0:0:0:4559:1fe2">>
RandExpStrings == <<"123-12", "000-00">>

Pick(seq, rnd, pos) == seq[RandomIndex(rnd, pos, Len(seq)) + 1]

getMockInteger(s, jsonpath, overrides, rnd, pos) ==
  IF overridden(jsonpath, overrides) THEN JSONPath(jsonpath, overrides)[1]
  ELSE Num(getRandomNumber(s.minimum, s.maximum, TRUE, Random(rnd, pos)))

getMockNumber(s, jsonpath, overrides, rnd, pos) ==
  IF overridden(jsonpath, overrides) THEN JSONPath(jsonpath, overrides)[1]
  ELSE Num(getRandomNumber(s.minimum, s.maximum, FALSE, Random(rnd, pos)))

getMockString(s, jsonpath, overrides, rnd, pos) ==
  IF overridden(jsonpath, overrides) THEN JSONPath(jsonpath, overrides)[1]
  ELSE IF s.format # ""
  THEN CASE s.format = "email" -> Str(Pick(FakerEmails, rnd, pos))
         [] s.format = "uuid" -> Str(Pick(FakerUUIDs, rnd, pos))
         [] s.format = "uri" -> Str(Pick(FakerURLs, rnd, pos))
         [] s.format = "ipv4" -> Str(Pick(FakerIPv4s, rnd, pos))
         [] s.format = "ipv6" -> Str(Pick(FakerIPv6s, rnd, pos))
         [] OTHER -> Str("")
  ELSE IF s.pattern # ""
  THEN IF Compiles(s.pattern) THEN Str(Pick(RandExpStrings, rnd, pos))
       ELSE Str("")
  ELSE LET low == IF Truthy(s.minLength) THEN s.minLength[1] ELSE 1
           high == IF Truthy(s.maxLength) THEN s.maxLength[1] ELSE low + 10
           lengthOfString ==
             getRandomNumber(<<low * 10>>, <<high * 10>>, TRUE,
                             Random(rnd, pos)) \div 10
       IN Str(getRandomString(lengthOfString, rnd, pos + 1))

RECURSIVE getMockData(_, _, _, _, _)

\* getRandomNumber(1, 10, {returnInteger: true}) under the draw r
lengthOfMockArray(r) == getRandomNumber(<<10>>, <<100>>, TRUE, r) \div 10

getMockArray(s, jsonpath, overrides, rnd, pos) ==
  IF overridden(jsonpath, overrides) THEN JSONPath(jsonpath, overrides)[1]
  ELSE LET mockArray ==
             [index \in 1..lengthOfMockArray(Random(rnd, pos)) |->
                getMockData(s.items, jsonpath, overrides, rnd, pos + index)]
       IN IF \E i \in 1..Len(mockArray) : mockArray[i] = ThrownValue
          THEN ThrownValue ELSE Arr(mockArray)

getMockObject(s, jsonpath, overrides, rnd, pos) ==
  IF overridden(jsonpath, overrides) THEN JSONPath(jsonpath, overrides)[1]
  ELSE IF s.properties = <<>> THEN ThrownValue  \* Object.keys(undefined)
  ELSE LET props == s.properties[1]
           keys == Keys(props)
           mockObject == [key \in DOMAIN props |->
             getMockData(<<props[key]>>, jsonpath \o "." \o key, overrides,
                         rnd,
                         pos + (CHOOSE i \in 1..Len(keys) : keys[i] = key))]
       IN IF \E key \in DOMAIN props : mockObject[key] = ThrownValue
          THEN ThrownValue ELSE Obj(mockObject)

getMockData(sOpt, jsonpath, overrides, rnd, pos) ==
  IF sOpt = NoSchema THEN Undefined
  ELSE LET s == sOpt[1] IN
  IF overridden(jsonpath, overrides) THEN JSONPath(jsonpath, overrides)[1]
  ELSE IF s.oneOf # <<>>
  THEN LET schemas == s.oneOf[1] IN
       IF Len(schemas) = 0 THEN Undefined
       ELSE getMockData(<<Pick(schemas, rnd, pos)>>, jsonpath, overrides,
                        rnd, pos + 1)
  ELSE IF s.enum # <<>>
  THEN IF Len(s.enum[1]) = 0 THEN Undefined ELSE Pick(s.enum[1], rnd, pos)
  ELSE CASE s.type = DataTypeBOOLEAN ->
              Pick(<<Bool(TRUE), Bool(FALSE)>>, rnd, pos)
         [] s.type = DataTypeINTEGER ->
              getMockInteger(s, jsonpath, overrides, rnd, pos)
         [] s.type = DataTypeNUMBER ->
              getMockNumber(s, jsonpath, overrides, rnd, pos)
         [] s.type = DataTypeSTRING ->
              getMockString(s, jsonpath, overrides, rnd, pos)
         [] s.type = DataTypeARRAY ->
              getMockArray(s, jsonpath, overrides, rnd, pos)
         [] s.type = DataTypeOBJECT ->
              getMockObject(s, jsonpath, overrides, rnd, pos)
         [] OTHER -> Null

----------------------------------------------------------------------------
(* generators/bad_data.js *)

DUMMY ==
  << [type |-> DataTypeINTEGER, data |-> Whole(1)],
     [type |-> DataTypeNUMBER, data |-> Num(11)],
     [type |-> DataTypeSTRING, data |-> Str("ats")],
     [type |-> DataTypeOBJECT, data |-> Obj([k \in {"name"} |-> Str("ats")])],
     [type |-> DataTypeARRAY, data |-> Arr(<<Whole(1), Whole(2), Whole(3)>>)],
     [type |-> DataTypeBOOLEAN, data |-> Bool(FALSE)] >>

Deficient(k, d, deficiency) == [key |-> k, data |-> d, deficiency |-> deficiency]

Returned(list) == [thrown |-> FALSE, list |-> list]

GeneratorThrown == [thrown |-> TRUE, list |-> <<>>]

RECURSIVE ConcatLists(_)
ConcatLists(rs) ==
  IF Len(rs) = 0 THEN <<>> ELSE rs[1].list \o ConcatLists(Tail(rs))

ConcatReturned(rs) ==
  IF \E i \in 1..Len(rs) : rs[i].thrown THEN GeneratorThrown
  ELSE Returned(ConcatLists(rs))

NoGeneratorOptions ==
  [checkMinimum |-> FALSE, checkMaximum |-> FALSE,
   checkMinimumLength |-> FALSE, checkMaximumLength |-> FALSE]

\* the callback handed down the recursion, named by its category
RECURSIVE deficientDataGenerator(_, _, _, _, _, _)

\* deficientItems.forEach: each deficient item becomes a one-element array
DeficientArraysOf(deficientItems) ==
  IF deficientItems.thrown THEN GeneratorThrown
  ELSE Returned([i \in 1..Len(deficientItems.list) |->
         Deficient(deficientItems.list[i].key,
                   Arr(<<deficientItems.list[i].data>>),
                   deficientItems.list[i].deficiency)])

getDeficientArrays(s, jsonpath, generator, overrides, opts, rnd) ==
  DeficientArraysOf(
    deficientDataGenerator(generator, s.items, jsonpath \o "[]", overrides,
                           opts, rnd))

getOneOfDeficientData(schemas, jsonpath, generator, overrides, opts, rnd) ==
  ConcatReturned([i \in 1..Len(schemas) |->
    deficientDataGenerator(generator, <<schemas[i]>>, jsonpath, overrides,
                           opts, rnd)])

\* const data = getMockData(schema, jsonpath, overrides); data[key] = value
AssignKey(mock, key, value) ==
  CASE mock = ThrownValue -> ThrownValue
    [] mock[1] \in {"undefined", "null"} -> ThrownValue
    [] mock[1] = "object" ->
         [mock EXCEPT ![2] = [k \in (DOMAIN mock[2]) \cup {key} |->
                               IF k = key THEN value ELSE mock[2][k]]]
    [] OTHER -> mock

\* deficientKeys.forEach: each deficient value is assigned to its key in
\* mock data of the object
DeficientObjectsOf(deficientKeys, mock, key) ==
  LET assigned == [j \in 1..Len(deficientKeys.list) |->
                     AssignKey(mock, key, deficientKeys.list[j].data)]
  IN IF deficientKeys.thrown THEN GeneratorThrown
     ELSE IF \E j \in 1..Len(assigned) : assigned[j] = ThrownValue
     THEN GeneratorThrown
     ELSE Returned([j \in 1..Len(assigned) |->
            Deficient(deficientKeys.list[j].key, assigned[j],
                      deficientKeys.list[j].deficiency)])

getDeficientObjects(s, jsonpath, generator, overrides, opts, rnd) ==
  IF s.properties = <<>> THEN GeneratorThrown  \* Object.keys(undefined)
  ELSE ConcatReturned(
         [i \in 1..Len(Keys(s.properties[1])) |->
            DeficientObjectsOf(
              deficientDataGenerator(generator,
                <<s.properties[1][Keys(s.properties[1])[i]]>>,
                jsonpath \o "." \o Keys(s.properties[1])[i], overrides, opts,
                rnd),
              getMockData(<<s>>, jsonpath, overrides, rnd, 0),
              Keys(s.properties[1])[i])])

\* the part every category starts with: oneOf, array and object recursion
Nested(s, jsonpath, generator, overrides, opts, rnd) ==
  ConcatReturned(
    (IF s.type = DataTypeARRAY
     THEN <<getDeficientArrays(s, jsonpath, generator, overrides, opts, rnd)>>
     ELSE <<>>)
    \o (IF s.type = DataTypeOBJECT
        THEN <<getDeficientObjects(s, jsonpath, generator, overrides, opts,
                                   rnd)>>
        ELSE <<>>))

\* deficientDatas after the recursion, returned as it is when the generator
\* stops there, and with the generator's own records otherwise
Concat(deficientDatas, stop, own) ==
  IF deficientDatas.thrown \/ stop THEN deficientDatas
  ELSE ConcatReturned(<<deficientDatas, own>>)

\* the dummy shapes that do not bring a deficiency to a schema of type t
SkippedDummy(dummyType, t) ==
  \/ dummyType = t
  \/ dummyType = DataTypeINTEGER /\ t = DataTypeNUMBER
  \/ /\ dummyType \in {DataTypeINTEGER, DataTypeNUMBER, DataTypeBOOLEAN}
     /\ t = DataTypeSTRING
  \/ dummyType = DataTypeARRAY /\ t = DataTypeOBJECT

getDataDeficientByDataType(sOpt, jsonpath, overrides, opts, rnd) ==
  IF sOpt = NoSchema THEN Returned(<<>>)
  ELSE LET s == sOpt[1] IN
  IF s.oneOf # <<>>
  THEN getOneOfDeficientData(s.oneOf[1], jsonpath, "DataType", overrides,
                             NoGeneratorOptions, rnd)
  ELSE LET dummies == SelectSeq(DUMMY,
                        LAMBDA dummy : ~SkippedDummy(dummy.type, s.type))
       IN Concat(Nested(s, jsonpath, "DataType", overrides,
                        NoGeneratorOptions, rnd),
                 overridden(jsonpath, overrides),
                 Returned([i \in 1..Len(dummies) |->
                            Deficient(jsonpath, dummies[i].data, "DataType")]))

getDataDeficientByEnum(sOpt, jsonpath, overrides, opts, rnd) ==
  IF sOpt = NoSchema THEN Returned(<<>>)
  ELSE LET s == sOpt[1] IN
  IF s.oneOf # <<>>
  THEN getOneOfDeficientData(s.oneOf[1], jsonpath, "Enum", overrides,
                             NoGeneratorOptions, rnd)
  ELSE LET dummies == SelectSeq(DUMMY, LAMBDA dummy : dummy.type = s.type)
       IN Concat(Nested(s, jsonpath, "Enum", overrides, NoGeneratorOptions,
                        rnd),
                 overridden(jsonpath, overrides) \/ s.enum = <<>>,
                 Returned([i \in 1..Len(dummies) |->
                            Deficient(jsonpath, dummies[i].data, "Enum")]))

getDataDeficientByNumberLimit(sOpt, jsonpath, overrides, opts, rnd) ==
  IF sOpt = NoSchema THEN Returned(<<>>)
  ELSE LET s == sOpt[1] IN
  IF s.oneOf # <<>>
  THEN getOneOfDeficientData(s.oneOf[1], jsonpath, "Number Range", overrides,
                             opts, rnd)
  ELSE Concat(Nested(s, jsonpath, "Number Range", overrides, opts, rnd),
              \/ overridden(jsonpath, overrides)
              \/ ~(s.type = DataTypeNUMBER \/ s.type = DataTypeINTEGER),
              Returned(
                (IF opts.checkMinimum /\ Truthy(s.minimum)
                 THEN <<Deficient(jsonpath, Num(s.minimum[1] - 10),
                                  "Number Range")>>
                 ELSE <<>>)
                \o (IF opts.checkMaximum /\ Truthy(s.maximum)
                    THEN <<Deficient(jsonpath, Num(s.maximum[1] + 10),
                                     "Number Range")>>
                    ELSE <<>>)))

\* delete data[key] on a fresh getMockData(schema, jsonpath, overrides)
DeleteKey(mock, key) ==
  CASE mock = ThrownValue -> ThrownValue
    [] mock[1] \in {"undefined", "null"} -> ThrownValue
    [] mock[1] = "object" ->
         [mock EXCEPT ![2] = [k \in (DOMAIN mock[2]) \ {key} |-> mock[2][k]]]
    [] OTHER -> mock

\* the records of the keys of an object schema that are, or are not, required
MissingKeyRecords(s, jsonpath, overrides, rnd, wantRequired, deficiency) ==
  IF s.properties = <<>> THEN GeneratorThrown
  ELSE LET requiredKeys == IF s.required = <<>> THEN <<>> ELSE s.required[1]
           includes(key) == \E i \in 1..Len(requiredKeys) : requiredKeys[i] = key
           keys == SelectSeq(Keys(s.properties[1]),
                     LAMBDA key : /\ includes(key) = wantRequired
                                  /\ ~overridden(jsonpath \o "." \o key,
                                                 overrides))
           mock == getMockData(<<s>>, jsonpath, overrides, rnd, 0)
           datas == [i \in 1..Len(keys) |-> DeleteKey(mock, keys[i])]
       IN IF \E i \in 1..Len(keys) : datas[i] = ThrownValue
          THEN GeneratorThrown
          ELSE Returned([i \in 1..Len(keys) |->
                 Deficient(jsonpath \o "." \o keys[i], datas[i], deficiency)])

getDataDeficientByOptionalKey(sOpt, jsonpath, overrides, opts, rnd) ==
  IF sOpt = NoSchema THEN Returned(<<>>)
  ELSE LET s == sOpt[1] IN
  IF s.oneOf # <<>>
  THEN getOneOfDeficientData(s.oneOf[1], jsonpath, "Optional Key Missing",
                             overrides, NoGeneratorOptions, rnd)
  ELSE Concat(Nested(s, jsonpath, "Optional Key Missing", overrides,
                     NoGeneratorOptions, rnd),
              s.type # DataTypeOBJECT,
              MissingKeyRecords(s, jsonpath, overrides, rnd, FALSE,
                                "Optional Key Missing"))

getDataDeficientByRequiredKey(sOpt, jsonpath, overrides, opts, rnd) ==
  IF sOpt = NoSchema THEN Returned(<<>>)
  ELSE LET s == sOpt[1] IN
  IF s.oneOf # <<>>
  THEN getOneOfDeficientData(s.oneOf[1], jsonpath, "Required Key Missing",
                             overrides, NoGeneratorOptions, rnd)
  ELSE Concat(Nested(s, jsonpath, "Required Key Missing", overrides,
                     NoGeneratorOptions, rnd),
              s.type # DataTypeOBJECT,
              MissingKeyRecords(s, jsonpath, overrides, rnd, TRUE,
                                "Required Key Missing"))

getDataDeficientByStringLength(sOpt, jsonpath, overrides, opts, rnd) ==
  IF sOpt = NoSchema THEN Returned(<<>>)
  ELSE LET s == sOpt[1] IN
  IF s.oneOf # <<>>
  THEN getOneOfDeficientData(s.oneOf[1], jsonpath, "String Length", overrides,
                             opts, rnd)
  ELSE Concat(Nested(s, jsonpath, "String Length", overrides, opts, rnd),
              overridden(jsonpath, overrides) \/ s.type # DataTypeSTRING,
              Returned(
                (IF opts.checkMinimumLength /\ Truthy(s.minLength)
                 THEN <<Deficient(jsonpath,
                          Str(getRandomString(s.minLength[1] - 1, rnd, 0)),
                          "String Length")>>
                 ELSE <<>>)
                \o (IF opts.checkMaximumLength /\ Truthy(s.maxLength)
                    THEN <<Deficient(jsonpath,
                             Str(getRandomString(s.maxLength[1] + 1, rnd, 0)),
                             "String Length")>>
                    ELSE <<>>)))

deficientDataGenerator(generator, sOpt, jsonpath, overrides, opts, rnd) ==
  CASE generator = "DataType" ->
         getDataDeficientByDataType(sOpt, jsonpath, overrides, opts, rnd)
    [] generator = "Enum" ->
         getDataDeficientByEnum(sOpt, jsonpath, overrides, opts, rnd)
    [] generator = "Number Range" ->
         getDataDeficientByNumberLimit(sOpt, jsonpath, overrides, opts, rnd)
    [] generator = "Optional Key Missing" ->
         getDataDeficientByOptionalKey(sOpt, jsonpath, overrides, opts, rnd)
    [] generator = "Required Key Missing" ->
         getDataDeficientByRequiredKey(sOpt, jsonpath, overrides, opts, rnd)
    [] generator = "String Length" ->
         getDataDeficientByStringLength(sOpt, jsonpath, overrides, opts, rnd)

\* The generators write to the value getMockData hands them: data[key] =
\* deficientKey.data in getDeficientObjects, delete data[key] in the two
\* missing-key generators. Under a schema with enum, getMockData hands out
\* the member of schema.enum itself.

\* the shared objects a schema tree holds in its enums
RECURSIVE SharedIn(_)
SharedIn(sOpt) ==
  IF sOpt = NoSchema THEN {}
  ELSE LET s == sOpt[1] IN
    (IF s.enum = <<>> THEN {}
     ELSE {s.enum[1][i] :
             i \in {j \in 1..Len(s.enum[1]) : IsShared(s.enum[1][j])}})
    \cup (IF s.oneOf = <<>> THEN {}
          ELSE UNION {SharedIn(<<s.oneOf[1][i]>>) : i \in 1..Len(s.oneOf[1])})
    \cup SharedIn(s.items)
    \cup (IF s.properties = <<>> THEN {}
          ELSE UNION {SharedIn(<<s.properties[1][k]>>) :
                        k \in DOMAIN s.properties[1]})

\* a value as its holder reads it once the call is over: each shared object
\* in it is what the writes of the call left
RECURSIVE Settle(_, _)
Settle(d, shared) ==
  CASE IsShared(d) ->
         IF \E m \in shared : m[3] = d[3]
         THEN CHOOSE m \in shared : m[3] = d[3]
         ELSE d
    [] d[1] = "object" /\ ~IsShared(d) ->
         Obj([k \in DOMAIN d[2] |-> Settle(d[2][k], shared)])
    [] d[1] = "array" ->
         Arr([i \in 1..Len(d[2]) |-> Settle(d[2][i], shared)])
    [] OTHER -> d

\* the member of schema.enum that getMockData handed out, after
\* data[key] = deficientKey.data for every deficient value of every key
\* (bad_data.js:113-114) and, in the two missing-key generators, after
\* delete data[key] for every key they take away (bad_data.js:315-317,
\* 356-358); deficientKeys[i] is what the generator returned for key i
MemberAfter(s, jsonpath, generator, overrides, mock, deficientKeys) ==
  LET keys == Keys(s.properties[1])
      reached == {i \in 1..Len(keys) :
                    \A j \in 1..(i - 1) : ~deficientKeys[j].thrown}
      assigned == {i \in reached : /\ ~deficientKeys[i].thrown
                                   /\ Len(deficientKeys[i].list) > 0}
      requiredKeys == IF s.required = <<>> THEN <<>> ELSE s.required[1]
      includes(key) == \E i \in 1..Len(requiredKeys) : requiredKeys[i] = key
      deleted ==
        IF /\ generator \in {"Optional Key Missing", "Required Key Missing"}
           /\ \A i \in 1..Len(keys) : ~deficientKeys[i].thrown
        THEN {keys[i] : i \in {j \in 1..Len(keys) :
                /\ includes(keys[j]) = (generator = "Required Key Missing")
                /\ ~overridden(jsonpath \o "." \o keys[j], overrides)}}
        ELSE {}
      last(key) ==
        LET i == CHOOSE j \in assigned : keys[j] = key
        IN deficientKeys[i].list[Len(deficientKeys[i].list)].data
  IN Shared([k \in ((DOMAIN mock[2]) \cup {keys[i] : i \in assigned})
                     \ deleted |->
               IF \E i \in assigned : keys[i] = k THEN last(k)
               ELSE mock[2][k]],
            mock[3])

\* a oneOf node after getOneOfDeficientData: returned[i] is what the
\* generator returned for alternative i and after[i] what it left of it
OneOfAfter(s, returned, after) ==
  [s EXCEPT !.oneOf = <<[i \in 1..Len(s.oneOf[1]) |->
     IF \A j \in 1..(i - 1) : ~returned[j].thrown
     THEN after[i] ELSE s.oneOf[1][i]]>>]

\* an object node after getDeficientObjects and the loop over its keys: mock
\* is getMockData(schema), deficientKeys[i] what the generator returned for
\* key i and after[key] what it left of the key's schema
ObjectAfter(s, jsonpath, generator, overrides, mock, deficientKeys, after) ==
  LET keys == Keys(s.properties[1])
      index(key) == CHOOSE i \in 1..Len(keys) : keys[i] = key
  IN [s EXCEPT
        !.properties = <<[key \in DOMAIN s.properties[1] |->
           IF \A j \in 1..(index(key) - 1) :
                ~DeficientObjectsOf(deficientKeys[j], mock, keys[j]).thrown
           THEN after[key] ELSE s.properties[1][key]]>>,
        !.enum =
           IF IsShared(mock)
           THEN <<[i \in 1..Len(s.enum[1]) |->
                    IF StrictEquals(s.enum[1][i], mock)
                    THEN MemberAfter(s, jsonpath, generator, overrides, mock,
                                     deficientKeys)
                    ELSE s.enum[1][i]]>>
           ELSE s.enum]

\* the schema tree after generator(schema, jsonpath, overrides, options)
RECURSIVE SchemaAfter(_, _, _, _, _, _)
SchemaAfter(generator, sOpt, jsonpath, overrides, opts, rnd) ==
  IF sOpt = NoSchema THEN NoSchema
  ELSE IF sOpt[1].oneOf # <<>>
  THEN <<OneOfAfter(sOpt[1],
           [i \in 1..Len(sOpt[1].oneOf[1]) |->
              deficientDataGenerator(generator, <<sOpt[1].oneOf[1][i]>>,
                                     jsonpath, overrides, opts, rnd)],
           [i \in 1..Len(sOpt[1].oneOf[1]) |->
              SchemaAfter(generator, <<sOpt[1].oneOf[1][i]>>, jsonpath,
                          overrides, opts, rnd)[1]])>>
  ELSE IF sOpt[1].type = DataTypeARRAY
  THEN <<[sOpt[1] EXCEPT !.items =
            SchemaAfter(generator, sOpt[1].items, jsonpath \o "[]", overrides,
                        opts, rnd)]>>
  ELSE IF sOpt[1].type = DataTypeOBJECT /\ sOpt[1].properties # <<>>
  THEN <<ObjectAfter(sOpt[1], jsonpath, generator, overrides,
           getMockData(sOpt, jsonpath, overrides, rnd, 0),
           [i \in 1..Len(Keys(sOpt[1].properties[1])) |->
              deficientDataGenerator(generator,
                <<sOpt[1].properties[1][Keys(sOpt[1].properties[1])[i]]>>,
                jsonpath \o "." \o Keys(sOpt[1].properties[1])[i], overrides,
                opts, rnd)],
           [key \in DOMAIN sOpt[1].properties[1] |->
              SchemaAfter(generator, <<sOpt[1].properties[1][key]>>,
                          jsonpath \o "." \o key, overrides, opts, rnd)[1]])>>
  ELSE sOpt

\* Under overrides, getMockData hands out the value the overrides hold for
\* the path, not a copy (good_data.js:201-203), and getDeficientObjects writes
\* data[key] = deficientKey.data to it (bad_data.js:113-114).

\* the tree after tree[jsonpath][key] = value, walking from the path of its
\* root
RECURSIVE AssignAt(_, _, _, _, _)
AssignAt(tree, path, jsonpath, key, value) ==
  IF path = jsonpath
  THEN IF tree[1] = "object" THEN AssignKey(tree, key, value) ELSE tree
  ELSE IF tree[1] = "object" /\ Len(path) < Len(jsonpath)
  THEN Obj([k \in DOMAIN tree[2] |->
              AssignAt(tree[2][k], path \o "." \o k, jsonpath, key, value)])
  ELSE tree

Left(overrides) == [overrides |-> overrides, thrown |-> FALSE]

\* one key of getDeficientObjects: went is what the keys before it left of
\* the overrides, inner what the generator left of them when called for the
\* key, deficientKeys what it returned, mock getMockData(schema, jsonpath,
\* overrides)
KeyOverridesAfter(went, inner, deficientKeys, mock, jsonpath, key) ==
  IF went.thrown THEN went
  ELSE IF inner.thrown \/ deficientKeys.thrown
  THEN [inner EXCEPT !.thrown = TRUE]
  ELSE IF deficientKeys.list = <<>> THEN inner
  ELSE IF AssignKey(mock, key, Undefined) = ThrownValue
  THEN [inner EXCEPT !.thrown = TRUE]
  ELSE IF overridden(jsonpath, inner.overrides)
  THEN [inner EXCEPT !.overrides =
          AssignAt(inner.overrides, "$", jsonpath, key,
                   deficientKeys.list[Len(deficientKeys.list)].data)]
  ELSE inner

\* the call is over: it threw if the keys did or the rest of the generator did
CallOver(went, returned) ==
  [went EXCEPT !.thrown = went.thrown \/ returned.thrown]

\* the overrides after generator(schema, jsonpath, overrides, options), and
\* whether the call threw
RECURSIVE OverridesAfter(_, _, _, _, _, _)

RECURSIVE KeysOverridesAfter(_, _, _, _, _, _, _)
KeysOverridesAfter(generator, s, jsonpath, went, opts, rnd, i) ==
  IF i > Len(Keys(s.properties[1])) THEN went
  ELSE KeysOverridesAfter(generator, s, jsonpath,
         KeyOverridesAfter(went,
           OverridesAfter(generator,
             <<s.properties[1][Keys(s.properties[1])[i]]>>,
             jsonpath \o "." \o Keys(s.properties[1])[i], went.overrides,
             opts, rnd),
           deficientDataGenerator(generator,
             <<s.properties[1][Keys(s.properties[1])[i]]>>,
             jsonpath \o "." \o Keys(s.properties[1])[i], went.overrides,
             opts, rnd),
           getMockData(<<s>>, jsonpath,
             OverridesAfter(generator,
               <<s.properties[1][Keys(s.properties[1])[i]]>>,
               jsonpath \o "." \o Keys(s.properties[1])[i], went.overrides,
               opts, rnd).overrides,
             rnd, 0),
           jsonpath, Keys(s.properties[1])[i]),
         opts, rnd, i + 1)

\* schemas.forEach of getOneOfDeficientData
RECURSIVE OneOfOverridesAfter(_, _, _, _, _, _, _)
OneOfOverridesAfter(generator, schemas, jsonpath, went, opts, rnd, i) ==
  IF i > Len(schemas) \/ went.thrown THEN went
  ELSE OneOfOverridesAfter(generator, schemas, jsonpath,
         OverridesAfter(generator, <<schemas[i]>>, jsonpath, went.overrides,
                        opts, rnd),
         opts, rnd, i + 1)

OverridesAfter(generator, sOpt, jsonpath, overrides, opts, rnd) ==
  IF sOpt = NoSchema THEN Left(overrides)
  ELSE IF sOpt[1].oneOf # <<>>
  THEN OneOfOverridesAfter(generator, sOpt[1].oneOf[1], jsonpath,
                           Left(overrides), opts, rnd, 1)
  ELSE IF sOpt[1].type = DataTypeARRAY
  THEN OverridesAfter(generator, sOpt[1].items, jsonpath \o "[]", overrides,
                      opts, rnd)
  ELSE IF sOpt[1].type = DataTypeOBJECT
  THEN IF sOpt[1].properties = <<>>
       THEN [overrides |-> overrides, thrown |-> TRUE]
       ELSE CallOver(
              KeysOverridesAfter(generator, sOpt[1], jsonpath,
                                 Left(overrides), opts, rnd, 1),
              deficientDataGenerator(generator, sOpt, jsonpath, overrides,
                                     opts, rnd))
  ELSE Left(overrides)

----------------------------------------------------------------------------
(* The schemas and the values the operations are applied to *)

\* largest numeric bound of a schema, in whole units
MaxNumber == 4

\* largest string length bound of a schema
MaxLength == 4

NumberBounds == {-10, 0, 10, 15, MaxNumber * 10}

OptionalBounds == {<<>>} \cup {<<b>> : b \in NumberBounds}

OptionalLengths == {<<>>} \cup {<<n>> : n \in {0, 2, MaxLength}}

Ranged(t, lo, hi) == [Typed(t) EXCEPT !.minimum = lo, !.maximum = hi]

Sized(lo, hi) == [Typed(DataTypeSTRING) EXCEPT !.minLength = lo, !.maxLength = hi]

Formatted(f) == [Typed(DataTypeSTRING) EXCEPT !.format = f]

Patterned(p) == [Typed(DataTypeSTRING) EXCEPT !.pattern = p]

Enumerated(t, members) == [Typed(t) EXCEPT !.enum = <<members>>]

ArrayOf(items) == [Typed(DataTypeARRAY) EXCEPT !.items = <<items>>]

OneOf(schemas) == [Blank EXCEPT !.oneOf = <<schemas>>]

ObjectOf(props, required) ==
  [Typed(DataTypeOBJECT) EXCEPT !.properties = <<props>>, !.required = required]

Props1(sa) == [k \in {"a"} |-> sa]

Props2(sa, sb) == [k \in {"a", "b"} |-> IF k = "a" THEN sa ELSE sb]

NumericSchemas ==
  {Ranged(t, lo, hi) : t \in {DataTypeINTEGER, DataTypeNUMBER},
                       lo \in OptionalBounds, hi \in OptionalBounds}

StringSchemas ==
  {Sized(lo, hi) : lo \in OptionalLengths, hi \in OptionalLengths}
  \cup {Formatted(f) : f \in SchemaFormats \cup {"phone"}}
  \cup {[Formatted(f) EXCEPT !.minLength = <<2>>, !.maxLength = <<MaxLength>>] :
          f \in {"ipv6", "email"}}
  \cup {Patterned(ValidPattern), Patterned(InvalidPattern),
        [Patterned(ValidPattern) EXCEPT !.maxLength = <<2>>]}

EnumSchemas ==
  { Enumerated(DataTypeSTRING, <<Str("Dingo"), Str("Husky")>>),
    Enumerated(DataTypeSTRING, <<Str("ats"), Str("Husky")>>),
    [Enumerated(DataTypeSTRING, <<Str("Dingo")>>) EXCEPT !.maxLength = <<2>>],
    Enumerated(DataTypeINTEGER, <<Whole(1), Whole(2)>>),
    Enumerated(DataTypeINTEGER, <<Whole(5), Whole(7)>>),
    [Enumerated(DataTypeINTEGER, <<Whole(1), Whole(5)>>) EXCEPT !.minimum = <<20>>],
    Enumerated(DataTypeNUMBER, <<Num(11), Num(25)>>),
    Enumerated(DataTypeBOOLEAN, <<Bool(TRUE)>>),
    Enumerated(DataTypeBOOLEAN, <<Bool(FALSE)>>),
    Enumerated(DataTypeOBJECT, <<Null>>),
    Enumerated(DataTypeSTRING, <<>>) }

OddSchemas ==
  { Typed(DataTypeBOOLEAN), Typed("multidimensional-array"), Blank,
    Typed(DataTypeARRAY), Typed(DataTypeOBJECT) }

\* the leaves the composite schemas are built from
CoreSchemas ==
  { Ranged(DataTypeINTEGER, <<10>>, <<MaxNumber * 10>>),
    Ranged(DataTypeNUMBER, <<15>>, <<>>),
    Sized(<<2>>, <<MaxLength>>),
    Typed(DataTypeBOOLEAN),
    Enumerated(DataTypeSTRING, <<Str("Dingo"), Str("Husky")>>),
    Enumerated(DataTypeINTEGER, <<Whole(1), Whole(2)>>) }

SecondSchemas ==
  { Ranged(DataTypeINTEGER, <<10>>, <<MaxNumber * 10>>),
    Sized(<<2>>, <<MaxLength>>),
    Typed(DataTypeBOOLEAN) }

\* an object schema whose enum holds one conformant object
EnumObject ==
  [ObjectOf(Props2(Ranged(DataTypeINTEGER, <<10>>, <<MaxNumber * 10>>),
                   Typed(DataTypeBOOLEAN)), << <<"a">> >>)
   EXCEPT !.enum = << <<Shared([k \in {"a", "b"} |->
                                 IF k = "a" THEN Whole(1) ELSE Bool(TRUE)],
                               "enum[0]")>> >>]

InnerObject ==
  ObjectOf(Props2(Ranged(DataTypeINTEGER, <<10>>, <<MaxNumber * 10>>),
                  Sized(<<2>>, <<>>)), << <<"a">> >>)

RequiredLists == {<<>>, << <<"a">> >>, << <<"a", "b">> >>}

ObjectSchemas ==
  {ObjectOf(Props2(sa, sb), req) :
     sa \in CoreSchemas, sb \in SecondSchemas, req \in RequiredLists}
  \cup {ObjectOf(Props1(sa), << <<"a">> >>) : sa \in CoreSchemas}
  \cup { ObjectOf(Props2(InnerObject, Typed(DataTypeBOOLEAN)), << <<"a">> >>),
         ObjectOf(Props1(ArrayOf(InnerObject)), <<>>),
         ObjectOf(Props1(Typed(DataTypeOBJECT)), <<>>),
         ObjectOf(Props2(Ranged(DataTypeINTEGER, <<15>>, <<MaxNumber * 10>>),
                         Typed(DataTypeBOOLEAN)), <<>>),
         ObjectOf([k \in {} |-> Blank], <<>>),
         EnumObject,
         ObjectOf(Props1(EnumObject), <<>>) }

ArraySchemas ==
  {ArrayOf(items) : items \in CoreSchemas}
  \cup { ArrayOf(InnerObject),
         ArrayOf(ArrayOf(Ranged(DataTypeINTEGER, <<10>>, <<MaxNumber * 10>>))) }

\* after the ONEOF example: two object alternatives under a typed oneOf node
OneOfExample ==
  [OneOf(<< ObjectOf(Props2(Typed(DataTypeSTRING),
                Enumerated(DataTypeSTRING, <<Str("Dingo"), Str("Husky")>>)), <<>>),
            ObjectOf(Props1(Typed(DataTypeBOOLEAN)), <<>>) >>)
   EXCEPT !.type = DataTypeOBJECT]

OneOfSchemas ==
  {OneOf(<<sa, sb>>) : sa \in CoreSchemas, sb \in CoreSchemas}
  \cup { OneOfExample, OneOf(<<>>), OneOf(<<InnerObject>>),
         OneOf(<<Typed(DataTypeSTRING), InnerObject>>) }

Schemas ==
  NumericSchemas \cup StringSchemas \cup EnumSchemas \cup OddSchemas
  \cup ObjectSchemas \cup ArraySchemas \cup OneOfSchemas

RECURSIVE Letters(_)
Letters(n) == IF n <= 0 THEN "" ELSE "a" \o Letters(n - 1)

InputNumbers ==
  {Num(b + d) : b \in NumberBounds, d \in {-10, -5, 0, 10}}

InputStrings ==
  {Str(Letters(n)) : n \in 0..(MaxLength + 1)}
  \cup {Str(s) : s \in {"ats", "Dingo", "Dino", "true", "1", "123-12",
                        "abilash@gmail.com"}}

InputArrays ==
  { Arr(<<>>), Arr(<<Whole(1), Str("x"), Whole(3)>>),
    Arr(<<Whole(1), Whole(2), Whole(3)>>), Arr(<<Whole(0), Whole(9)>>),
    Arr(<<Null>>), Arr(<<Str("Dino"), Str("Husky"), Whole(1)>>),
    Arr(<<Arr(<<Whole(1), Whole(7)>>)>>),
    Arr(<<Obj([k \in {"a"} |-> Whole(1)]), Obj([k \in {"b"} |-> Str("ab")])>>) }

InputObjects ==
  { Obj([k \in {} |-> Undefined]),
    Obj([k \in {"a"} |-> Whole(1)]),
    Obj([k \in {"a"} |-> Null]),
    Obj([k \in {"b"} |-> Str("ab")]),
    Obj([k \in {"x"} |-> Whole(1)]),
    Obj([k \in {"b", "x"} |-> Bool(TRUE)]),
    Obj([k \in {"a", "x"} |-> Whole(1)]),
    Obj([k \in {"a", "b"} |-> IF k = "a" THEN Whole(1) ELSE Str("ab")]),
    Obj([k \in {"a", "b"} |-> IF k = "a" THEN Str("yes") ELSE Str("Husky")]),
    Obj([k \in {"a", "b"} |-> IF k = "a" THEN Bool(TRUE) ELSE Str("Husky")]),
    Obj([k \in {"a", "b"} |-> IF k = "a" THEN Str("Dino") ELSE Whole(7)]),
    Obj([k \in {"a", "b"} |->
           IF k = "a" THEN Obj([j \in {"b"} |-> Str("a")]) ELSE Bool(TRUE)]),
    Obj([k \in {"a", "b"} |-> IF k = "a" THEN Null ELSE Bool(TRUE)]),
    Obj([k \in {"a", "b"} |->
           IF k = "a" THEN Obj([j \in {"a", "x"} |-> Whole(1)])
           ELSE Bool(TRUE)]) }

Values ==
  {Undefined, Null, Bool(TRUE), Bool(FALSE)}
  \cup InputNumbers \cup InputStrings \cup InputArrays \cup InputObjects

----------------------------------------------------------------------------
(* The operations *)

\* the overrides getMockData is called with: none, a value for the key a,
\* values for the keys a and b
Overrides ==
  { NoOverrides,
    Obj([k \in {"a"} |-> Str("Dino")]),
    Obj([k \in {"a", "b"} |->
           IF k = "a" THEN Obj([j \in {"x"} |-> Whole(1)]) ELSE Bool(FALSE)]) }

Generators ==
  {"DataType", "Enum", "Number Range", "Optional Key Missing",
   "Required Key Missing", "String Length"}

NoRecord == Deficient("", Undefined, "")

NoResult == [called |-> FALSE, thrown |-> FALSE, errors |-> <<>>]

DefaultOptions == [strictValidation |-> FALSE]

GeneratorOptions(generator) ==
  CASE generator = "Number Range" ->
         {[NoGeneratorOptions EXCEPT !.checkMinimum = lo, !.checkMaximum = hi] :
            lo \in BOOLEAN, hi \in BOOLEAN}
    [] generator = "String Length" ->
         {[NoGeneratorOptions EXCEPT !.checkMinimumLength = lo,
                                     !.checkMaximumLength = hi] :
            lo \in BOOLEAN, hi \in BOOLEAN}
    [] OTHER -> {NoGeneratorOptions}

\* no test suite is loaded and runTestSuite has not been called
NoTestRun ==
  /\ testParams = [apiTestSuites |-> <<>>, apiEndpointsToTest |-> {}]
  /\ runTestSuiteCalled = FALSE
  /\ activeChildProcesses = 0
  /\ childProcesses = <<>>
  /\ testVerdictCounter = [pass |-> 0, fail |-> 0]
  /\ testSummaries = 0

\* no list of api endpoints is being verified
NoSetup ==
  /\ oasApiEndpoints = <<>>
  /\ apiEndpoints = <<>>
  /\ apiEndpointsVerified = FALSE

\* no worker has received a message
NoWorker ==
  /\ workerStep = "none"
  /\ workerMessage = [positiveTestCases |-> <<>>, negativeTestCases |-> <<>>,
                      responseSchemas |-> [code \in {} |-> Blank]]
  /\ workerOutcomes = <<>>
  /\ workerTestResults = <<>>
  /\ workerSent = <<>>

Init ==
  /\ schema \in Schemas
  /\ data = Undefined
  /\ origin = "none"
  /\ record = NoRecord
  /\ generatorOptions = NoGeneratorOptions
  /\ options = DefaultOptions
  /\ result = NoResult
  /\ givenOverrides = NoOverrides
  /\ overridesAfterCall = NoOverrides
  /\ NoTestRun
  /\ NoSetup
  /\ NoWorker

\* the caller hands a value of its own to the validator
SupplyData(d) ==
  /\ origin = "none"
  /\ data' = d
  /\ origin' = "input"
  /\ record' = NoRecord
  /\ generatorOptions' = NoGeneratorOptions
  /\ result' = NoResult
  /\ UNCHANGED <<schema, options, givenOverrides, overridesAfterCall>>
  /\ UNCHANGED besidesEngine

\* data = getMockData(schema, '$', overrides)
GetMockData(rnd, overrides) ==
  /\ origin = "none"
  /\ data' = getMockData(<<schema>>, "$", overrides, rnd, 0)
  /\ givenOverrides' = overrides
  /\ overridesAfterCall' = overrides
  /\ origin' = "mock"
  /\ record' = NoRecord
  /\ generatorOptions' = NoGeneratorOptions
  /\ result' = NoResult
  /\ UNCHANGED <<schema, options>>
  /\ UNCHANGED besidesEngine

\* results = generator(schema, '$', overrides, opts); one of the results is
\* picked, or the call throws. The call leaves the schema as after and the
\* overrides as left.
GetDataDeficient(generator, opts, overrides, results, after, left) ==
  /\ origin = "none"
  /\ schema' = after[1]
  /\ \/ /\ results.thrown
        /\ data' = ThrownValue
        /\ record' = NoRecord
     \/ /\ ~results.thrown
        /\ \E i \in 1..Len(results.list) :
             /\ data' = Settle(results.list[i].data, SharedIn(after))
             /\ record' = [results.list[i] EXCEPT !.data = data']
  /\ origin' = generator
  /\ generatorOptions' = opts
  /\ result' = NoResult
  /\ givenOverrides' = overrides
  /\ overridesAfterCall' = left.overrides
  /\ UNCHANGED options
  /\ UNCHANGED besidesEngine

GetDataDeficientByDataType ==
  \E rnd \in RandomVectors, overrides \in Overrides :
    GetDataDeficient("DataType", NoGeneratorOptions, overrides,
      getDataDeficientByDataType(<<schema>>, "$", overrides, NoGeneratorOptions, rnd),
      SchemaAfter("DataType", <<schema>>, "$", overrides, NoGeneratorOptions, rnd),
      OverridesAfter("DataType", <<schema>>, "$", overrides, NoGeneratorOptions, rnd))

GetDataDeficientByEnum ==
  \E rnd \in RandomVectors, overrides \in Overrides :
    GetDataDeficient("Enum", NoGeneratorOptions, overrides,
      getDataDeficientByEnum(<<schema>>, "$", overrides, NoGeneratorOptions, rnd),
      SchemaAfter("Enum", <<schema>>, "$", overrides, NoGeneratorOptions, rnd),
      OverridesAfter("Enum", <<schema>>, "$", overrides, NoGeneratorOptions, rnd))

GetDataDeficientByNumberLimit ==
  \E rnd \in RandomVectors, overrides \in Overrides,
     opts \in GeneratorOptions("Number Range") :
    GetDataDeficient("Number Range", opts, overrides,
      getDataDeficientByNumberLimit(<<schema>>, "$", overrides, opts, rnd),
      SchemaAfter("Number Range", <<schema>>, "$", overrides, opts, rnd),
      OverridesAfter("Number Range", <<schema>>, "$", overrides, opts, rnd))

GetDataDeficientByOptionalKey ==
  \E rnd \in RandomVectors, overrides \in Overrides :
    GetDataDeficient("Optional Key Missing", NoGeneratorOptions, overrides,
      getDataDeficientByOptionalKey(<<schema>>, "$", overrides, NoGeneratorOptions, rnd),
      SchemaAfter("Optional Key Missing", <<schema>>, "$", overrides, NoGeneratorOptions, rnd),
      OverridesAfter("Optional Key Missing", <<schema>>, "$", overrides, NoGeneratorOptions, rnd))

GetDataDeficientByRequiredKey ==
  \E rnd \in RandomVectors, overrides \in Overrides :
    GetDataDeficient("Required Key Missing", NoGeneratorOptions, overrides,
      getDataDeficientByRequiredKey(<<schema>>, "$", overrides, NoGeneratorOptions, rnd),
      SchemaAfter("Required Key Missing", <<schema>>, "$", overrides, NoGeneratorOptions, rnd),
      OverridesAfter("Required Key Missing", <<schema>>, "$", overrides, NoGeneratorOptions, rnd))

GetDataDeficientByStringLength ==
  \E rnd \in RandomVectors, overrides \in Overrides,
     opts \in GeneratorOptions("String Length") :
    GetDataDeficient("String Length", opts, overrides,
      getDataDeficientByStringLength(<<schema>>, "$", overrides, opts, rnd),
      SchemaAfter("String Length", <<schema>>, "$", overrides, opts, rnd),
      OverridesAfter("String Length", <<schema>>, "$", overrides, opts, rnd))

\* errors = validateDataAgainstSchema(data, schema, options, '$')
Validate(opts) ==
  /\ origin # "none"
  /\ data # ThrownValue
  /\ ~result.called
  /\ LET r == validateDataAgainstSchema(data, <<schema>>, opts, "$")
     IN result' = [called |-> TRUE, thrown |-> r.thrown, errors |-> r.errors]
  /\ options' = opts
  /\ UNCHANGED <<schema, data, origin, record, generatorOptions,
                 givenOverrides, overridesAfterCall>>
  /\ UNCHANGED besidesEngine

\* the test case is over; the next one starts from the schema alone
NextTestCase ==
  /\ origin # "none"
  /\ result.called \/ data = ThrownValue
  /\ data' = Undefined
  /\ origin' = "none"
  /\ record' = NoRecord
  /\ generatorOptions' = NoGeneratorOptions
  /\ options' = DefaultOptions
  /\ result' = NoResult
  /\ givenOverrides' = NoOverrides
  /\ overridesAfterCall' = NoOverrides
  /\ UNCHANGED schema
  /\ UNCHANGED besidesEngine

Next ==
  \/ \E d \in Values : SupplyData(d)
  \/ \E rnd \in RandomVectors, overrides \in Overrides :
       GetMockData(rnd, overrides)
  \/ GetDataDeficientByDataType
  \/ GetDataDeficientByEnum
  \/ GetDataDeficientByNumberLimit
  \/ GetDataDeficientByOptionalKey
  \/ GetDataDeficientByRequiredKey
  \/ GetDataDeficientByStringLength
  \/ \E strict \in BOOLEAN : Validate([strictValidation |-> strict])
  \/ NextTestCase

Spec == Init /\ [][Next]_vars

----------------------------------------------------------------------------
(* testsuite_runner.js and the workers it forks *)

\* most api test suites of a test suite
MaxSuites == 3

\* most test cases of an api endpoint
MaxTestCases == 1

ApiEndpoints ==
  { [path |-> "/pets", httpMethod |-> "post"],
    [path |-> "/pets", httpMethod |-> "get"],
    [path |-> "/users", httpMethod |-> "post"] }

\* an apiTestSuite, known here by its apiEndpoint
ApiTestSuites ==
  UNION {[1..n -> ApiEndpoints] : n \in 0..MaxSuites}

\* the final verdicts of the test results a worker sends back
TestResults ==
  UNION {[1..n -> {"pass", "fail"}] : n \in 0..MaxTestCases}

\* apiEndpointsToTest.some(apiEndpointToTest => equals(apiEndpoint, ...))
toBeTested(apiEndpoint) ==
  \E apiEndpointToTest \in testParams.apiEndpointsToTest :
    apiEndpoint = apiEndpointToTest

\* the first loop: one active child process per api test suite to be tested
CountToBeTested(apiTestSuites) ==
  Cardinality({i \in 1..Len(apiTestSuites) : toBeTested(apiTestSuites[i])})

\* the second loop: a child process is forked for each api test suite, up to
\* the first one that is not to be tested, where runTestSuite returns
ForkedSuites(apiTestSuites) ==
  LET stops == {i \in 1..Len(apiTestSuites) : ~toBeTested(apiTestSuites[i])}
      last == IF stops = {} THEN Len(apiTestSuites)
              ELSE (CHOOSE i \in stops : \A j \in stops : i <= j) - 1
  IN [i \in 1..last |-> i]

\* the test run the engine's test cases leave alone
IdleEngine ==
  /\ schema = Blank
  /\ data = Undefined
  /\ origin = "none"
  /\ record = NoRecord
  /\ generatorOptions = NoGeneratorOptions
  /\ options = DefaultOptions
  /\ result = NoResult
  /\ givenOverrides = NoOverrides
  /\ overridesAfterCall = NoOverrides

\* loadTestParameters() has loaded a test suite
InitRunner ==
  /\ IdleEngine
  /\ testParams \in [apiTestSuites : ApiTestSuites,
                     apiEndpointsToTest : SUBSET ApiEndpoints]
  /\ runTestSuiteCalled = FALSE
  /\ activeChildProcesses = 0
  /\ childProcesses = <<>>
  /\ testVerdictCounter \in [pass : {0, 1}, fail : {0}]
  /\ testSummaries = 0
  /\ NoSetup
  /\ NoWorker

\* runTestSuite(): the counter is reset, the workers are counted, then forked
\* and sent their api test suite
runTestSuite ==
  /\ ~runTestSuiteCalled
  /\ runTestSuiteCalled' = TRUE
  /\ testVerdictCounter' = [pass |-> 0, fail |-> 0]
  /\ activeChildProcesses' = CountToBeTested(testParams.apiTestSuites)
  /\ childProcesses' =
       LET forked == ForkedSuites(testParams.apiTestSuites)
       IN [c \in 1..Len(forked) |->
             [apiTestSuite |-> forked[c], status |-> "forked",
              testResults |-> <<>>]]
  /\ UNCHANGED <<testParams, testSummaries>>
  /\ UNCHANGED besidesRunner

\* process.on('message') of a worker: the test cases of the api endpoint are
\* run, the results are sent to the parent and the worker exits
WorkerRun(c) ==
  /\ c \in DOMAIN childProcesses
  /\ childProcesses[c].status = "forked"
  /\ \E testResults \in TestResults :
       childProcesses' =
         [childProcesses EXCEPT ![c].status = "sent",
                                ![c].testResults = testResults]
  /\ UNCHANGED <<testParams, runTestSuiteCalled, activeChildProcesses,
                 testVerdictCounter, testSummaries>>
  /\ UNCHANGED besidesRunner

\* the verdicts displayTestResults adds to the counter
CountOf(testResults, verdict) ==
  Cardinality({i \in 1..Len(testResults) : testResults[i] = verdict})

\* childProcess.on('message') of the coordinator
OnMessage(c) ==
  /\ c \in DOMAIN childProcesses
  /\ childProcesses[c].status = "sent"
  /\ childProcesses' = [childProcesses EXCEPT ![c].status = "received"]
  /\ testVerdictCounter' =
       [pass |-> testVerdictCounter.pass
                   + CountOf(childProcesses[c].testResults, "pass"),
        fail |-> testVerdictCounter.fail
                   + CountOf(childProcesses[c].testResults, "fail")]
  /\ activeChildProcesses' = activeChildProcesses - 1
  /\ testSummaries' =
       IF activeChildProcesses - 1 # 0 THEN testSummaries
       ELSE testSummaries + 1
  /\ UNCHANGED <<testParams, runTestSuiteCalled>>
  /\ UNCHANGED besidesRunner

NextRunner ==
  \/ runTestSuite
  \/ \E c \in 1..Len(childProcesses) : WorkerRun(c)
  \/ \E c \in 1..Len(childProcesses) : OnMessage(c)

SpecRunner == InitRunner /\ [][NextRunner]_vars

\* the event loop runs every callback that is due, and a worker that was
\* sent its api test suite runs to its end
FairRunner ==
  /\ WF_vars(runTestSuite)
  /\ \A c \in 1..MaxSuites : WF_vars(WorkerRun(c)) /\ WF_vars(OnMessage(c))

SpecRunnerFair == SpecRunner /\ FairRunner

----------------------------------------------------------------------------
(* utils/oas.js *)

\* most api endpoints of an OAS document
MaxEndpoints == 3

HttpMethods == {"post", "get", "delete"}

\* the endpoints of a document: the methods of one path follow each other
\* and no endpoint comes twice
OasApiEndpoints ==
  {list \in UNION {[1..n -> [path : {"/pet", "/user"},
                             httpMethod : HttpMethods]] :
                     n \in 0..MaxEndpoints} :
     /\ \A i, j \in DOMAIN list : list[i] = list[j] => i = j
     /\ \A i, j, k \in DOMAIN list :
          i < j /\ j < k /\ list[i].path = list[k].path
          => list[j].path = list[i].path}

\* apiEndpoints.splice(index, 1), index counted from 1
Splice(list, index) ==
  [i \in 1..(Len(list) - 1) |-> IF i < index THEN list[i] ELSE list[i + 1]]

\* apiEndpoints.forEach(...) with the splice in its callback: forEach visits
\* the indexes below the length the list had at the start, and skips an index
\* the list no longer has
RECURSIVE forEachSplice(_, _, _)
forEachSplice(list, index, length) ==
  IF index > length THEN list
  ELSE IF index > Len(list) THEN forEachSplice(list, index + 1, length)
  ELSE IF list[index].httpMethod # "post"
  THEN forEachSplice(Splice(list, index), index + 1, length)
  ELSE forEachSplice(list, index + 1, length)

verifyApiEndpoints(list) == forEachSplice(list, 1, Len(list))

\* const allApiEndpoints = getApiEndpoints(oasDoc)
InitSetup ==
  /\ IdleEngine
  /\ NoTestRun
  /\ NoWorker
  /\ oasApiEndpoints \in OasApiEndpoints
  /\ apiEndpoints = oasApiEndpoints
  /\ apiEndpointsVerified = FALSE

\* verifyApiEndpoints(allApiEndpoints)
VerifyApiEndpoints ==
  /\ ~apiEndpointsVerified
  /\ apiEndpoints' = verifyApiEndpoints(apiEndpoints)
  /\ apiEndpointsVerified' = TRUE
  /\ UNCHANGED oasApiEndpoints
  /\ UNCHANGED besidesSetup

NextSetup == VerifyApiEndpoints

SpecSetup == InitSetup /\ [][NextSetup]_vars

----------------------------------------------------------------------------
(* testcase_runner.js: the worker of one api endpoint *)

\* most test cases of an api test suite
MaxCases == 2

\* the test cases of one kind, each known by its kind and its place
TestCasesOf(kind, n) == [i \in 1..n |-> [kind |-> kind, index |-> i]]

StatusCodes == {200, 404}

\* responses of the endpoint to the request of a test case
ResponsesTo(testCase) ==
  [request : {testCase},
   status : StatusCodes,
   data : {Str("ok"), Whole(1)},
   headers : {EmptyObject, Obj([k \in {"a"} |-> Str("ab")])}]

\* the request is rejected: a network error, or a time out after the retries
Rejected == [rejected |-> TRUE]

\* oasDoc.paths[path][httpMethod].responses: content is the schema of
\* content['application/json'], headers the headers of the response
ResponseSchemas ==
  { [code \in {} |-> Blank],
    [code \in {200} |->
       [content |-> <<Typed(DataTypeSTRING)>>, headers |-> <<>>]],
    [code \in {200, 404} |->
       IF code = 200
       THEN [content |-> <<Typed(DataTypeSTRING)>>,
             headers |-> <<[k \in {"a"} |-> Typed(DataTypeSTRING)]>>]
       ELSE [content |-> <<>>,
             headers |-> <<[k \in {"a"} |-> Blank]>>]],
    [code \in {404} |->
       [content |-> <<ObjectOf(Props1(Typed(DataTypeSTRING)), <<>>)>>,
        headers |-> <<[k \in {} |-> Blank]>>]] }

\* expectedStatusCode[0][0]
FirstDigit(expectedStatusCode) ==
  CASE expectedStatusCode = "2xx" -> 2
    [] expectedStatusCode = "4xx" -> 4
    [] expectedStatusCode = "5xx" -> 5

\* responseSchemas[statusCode]
ResponseSchemaOf(responseSchemas, statusCode) ==
  IF statusCode \in DOMAIN responseSchemas
  THEN <<responseSchemas[statusCode]>> ELSE <<>>

\* the first try block: the errors of the response body, or the validation
\* is skipped when anything throws
ValidateResponseBody(response, responseSchema) ==
  IF responseSchema = <<>> \/ responseSchema[1].content = <<>>
  THEN [skipped |-> TRUE, errors |-> <<>>]
  ELSE LET r == validateDataAgainstSchema(response.data,
                  responseSchema[1].content, DefaultOptions, "$")
       IN IF r.thrown THEN [skipped |-> TRUE, errors |-> <<>>]
          ELSE [skipped |-> FALSE, errors |-> r.errors]

\* headers.forEach: errors.responseHeaders.concat(validateDataAgainstSchema(
\* responseHeaders[header], responseHeaderSchema[header]), '$'); thrown tells
\* that a validation threw, which ends the loop
RECURSIVE ValidateHeaders(_, _, _, _)
ValidateHeaders(headers, responseHeaders, responseHeaderSchema, errors) ==
  IF headers = <<>> THEN [thrown |-> FALSE, errors |-> errors]
  ELSE LET r == validateDataAgainstSchema(
                  Prop(responseHeaders, Head(headers)),
                  <<responseHeaderSchema[Head(headers)]>>, DefaultOptions,
                  "$")
       IN IF r.thrown THEN [thrown |-> TRUE, errors |-> errors]
          ELSE ValidateHeaders(Tail(headers), responseHeaders,
                               responseHeaderSchema,
                               errors \o r.errors \o <<"$">>)

\* the second try block
ValidateResponseHeaders(response, responseSchema) ==
  IF responseSchema = <<>> \/ responseSchema[1].headers = <<>>
  THEN [skipped |-> TRUE, errors |-> <<>>]
  ELSE LET r == ValidateHeaders(Keys(responseSchema[1].headers[1]),
                                response.headers,
                                responseSchema[1].headers[1], <<>>)
       IN [skipped |-> r.thrown, errors |-> r.errors]

\* one turn of the loop of buildTestResults; body and headers are what the two
\* try blocks leave
TestResultOf(testCase, response, expectedStatusCodes, body, headers) ==
  LET initial ==
        IF \E i \in 1..Len(expectedStatusCodes) :
             response.status \div 100 = FirstDigit(expectedStatusCodes[i])
        THEN "pass" ELSE "fail"
  IN [testCase |-> testCase,
      response |-> response,
      testVerdict |->
        [initial |-> initial,
         final |-> IF initial = "fail" THEN "fail"
                   ELSE IF ~body.skipped /\ Len(body.errors) > 0 THEN "fail"
                   ELSE IF ~headers.skipped /\ Len(headers.errors) > 0
                   THEN "fail"
                   ELSE "pass"],
      skipValidation |->
        [responseBody |-> initial = "pass" /\ body.skipped,
         responseHeaders |-> initial = "pass" /\ headers.skipped],
      statusCodes |-> [expected |-> expectedStatusCodes,
                       received |-> response.status],
      errors |->
        [responseBody |-> IF initial = "pass" THEN body.errors ELSE <<>>,
         responseHeaders |-> IF initial = "pass" THEN headers.errors
                             ELSE <<>>]]

buildTestResults(testCases, responses, expectedStatusCodes, responseSchemas) ==
  [index \in 1..Len(responses) |->
     TestResultOf(testCases[index], responses[index], expectedStatusCodes,
       ValidateResponseBody(responses[index],
         ResponseSchemaOf(responseSchemas, responses[index].status)),
       ValidateResponseHeaders(responses[index],
         ResponseSchemaOf(responseSchemas, responses[index].status)))]

\* axios.all(requestPromises): the responses in the order of the requests, or
\* none of them when a request is rejected
SettleAll(outcomes) ==
  IF \E i \in 1..Len(outcomes) : outcomes[i] = Rejected THEN <<>>
  ELSE outcomes

\* the worker has received the message of the coordinator
InitWorker ==
  /\ IdleEngine
  /\ NoTestRun
  /\ NoSetup
  /\ workerStep = "received"
  /\ \E p \in 0..MaxCases, n \in 0..MaxCases :
       /\ p + n <= MaxCases
       /\ \E responseSchemas \in ResponseSchemas :
            workerMessage =
              [positiveTestCases |-> TestCasesOf("positive", p),
               negativeTestCases |-> TestCasesOf("negative", n),
               responseSchemas |-> responseSchemas]
  /\ workerOutcomes = <<>>
  /\ workerTestResults = <<>>
  /\ workerSent = <<>>

\* the outcomes the requests of the test cases can have
OutcomesOf(testCases) ==
  {outcomes \in [1..Len(testCases) ->
                   UNION {ResponsesTo(testCases[i]) : i \in 1..Len(testCases)}
                   \cup {Rejected}] :
     \A i \in 1..Len(testCases) :
       outcomes[i] = Rejected \/ outcomes[i].request = testCases[i]}

\* testResults.concat(await runTestCase(testCases, expectedStatusCodes, ...))
runTestCase(step, next, testCases, expectedStatusCodes) ==
  /\ workerStep = step
  /\ \E outcomes \in OutcomesOf(testCases) :
       /\ workerOutcomes' = workerOutcomes \o outcomes
       /\ workerTestResults' =
            workerTestResults
            \o buildTestResults(testCases, SettleAll(outcomes),
                                expectedStatusCodes,
                                workerMessage.responseSchemas)
  /\ workerStep' = next
  /\ UNCHANGED <<workerMessage, workerSent>>
  /\ UNCHANGED besidesWorker

RunPositiveTestCases ==
  runTestCase("received", "positive", workerMessage.positiveTestCases,
              <<"2xx">>)

RunNegativeTestCases ==
  runTestCase("positive", "negative", workerMessage.negativeTestCases,
              <<"4xx", "5xx">>)

\* process.send({apiEndpoint, testResults}); process.exit()
SendTestResults ==
  /\ workerStep = "negative"
  /\ workerSent' = <<workerTestResults>>
  /\ workerStep' = "sent"
  /\ UNCHANGED <<workerMessage, workerOutcomes, workerTestResults>>
  /\ UNCHANGED besidesWorker

NextWorker ==
  \/ RunPositiveTestCases
  \/ RunNegativeTestCases
  \/ SendTestResults

SpecWorker == InitWorker /\ [][NextWorker]_vars

----------------------------------------------------------------------------
(* What the claims speak about *)

Validated == result.called

\* the result is a list of n errors
Returns(n) == Validated /\ ~result.thrown /\ Len(result.errors) = n

\* a schema node that carries neither oneOf nor enum
Plain(s) == s.oneOf = <<>> /\ s.enum = <<>>

IsNumeric(s) == s.type \in {DataTypeINTEGER, DataTypeNUMBER}

\* a number of the kind the schema's type asks for
NumberFor(d, s) ==
  /\ d[1] = "number"
  /\ s.type = DataTypeINTEGER => d[2] % 10 = 0

\* the value has the JSON type the schema names
HasType(d, t) ==
  CASE t = DataTypeBOOLEAN -> d[1] = "boolean"
    [] t = DataTypeINTEGER -> d[1] = "number" /\ d[2] % 10 = 0
    [] t = DataTypeNUMBER -> d[1] = "number"
    [] t = DataTypeSTRING -> d[1] = "string"
    [] t = DataTypeARRAY -> d[1] = "array"
    [] t = DataTypeOBJECT -> d[1] = "object"
    [] OTHER -> FALSE

SeqToSet(q) == {q[i] : i \in 1..Len(q)}

\* the supported subset: typed nodes with enum, oneOf, properties/required,
\* items, minimum/maximum, minLength/maxLength and the five formats, whose
\* constraints can be met
RECURSIVE Supported(_)
Supported(s) ==
  IF s.oneOf # <<>>
  THEN /\ Len(s.oneOf[1]) > 0
       /\ \A i \in 1..Len(s.oneOf[1]) : Supported(s.oneOf[1][i])
  ELSE /\ s.type \in {DataTypeBOOLEAN, DataTypeINTEGER, DataTypeNUMBER,
                      DataTypeSTRING, DataTypeARRAY, DataTypeOBJECT}
       /\ s.pattern = ""
       /\ s.format \in SchemaFormats \cup {""}
       /\ IF s.enum # <<>>
          THEN /\ Len(s.enum[1]) > 0
               /\ s.type \notin {DataTypeARRAY, DataTypeOBJECT}
               /\ \A i \in 1..Len(s.enum[1]) : HasType(s.enum[1][i], s.type)
          ELSE CASE s.type = DataTypeOBJECT ->
                      /\ s.properties # <<>>
                      /\ \A k \in DOMAIN s.properties[1] :
                           Supported(s.properties[1][k])
                      /\ s.required # <<>> =>
                           SeqToSet(s.required[1]) \subseteq DOMAIN s.properties[1]
                 [] s.type = DataTypeARRAY ->
                      s.items # <<>> /\ Supported(s.items[1])
                 [] IsNumeric(s) ->
                      /\ (s.minimum # <<>> /\ s.maximum # <<>>) =>
                           \E n \in s.minimum[1]..s.maximum[1] :
                             NumberFor(Num(n), s)
                 [] s.type = DataTypeSTRING ->
                      (s.minLength # <<>> /\ s.maxLength # <<>>) =>
                        s.minLength[1] <= s.maxLength[1]
                 [] OTHER -> TRUE

----------------------------------------------------------------------------
(* Claims *)

\* C1: round trip. For every schema of the supported subset, every value
\* getMockData produces for it validates against that schema with an empty
\* error list.
C1_RoundTrip ==
  (/\ origin = "mock"
   /\ givenOverrides = NoOverrides
   /\ Validated
   /\ Supported(schema)) => Returns(0)

\* the error type the validator reports for a generator's category
CategoryErrors(generator) ==
  CASE generator = "DataType" -> {"DataType Error"}
    [] generator = "Enum" -> {"Enum Error"}
    [] generator = "Number Range" ->
         {"Number Range Error", "Integer Range Error"}
    [] generator = "Required Key Missing" -> {"Required Key Error"}
    [] generator = "String Length" -> {"String Length Error"}
    [] OTHER -> {}

AllChecks(generator, opts) ==
  /\ generator = "Number Range" => opts.checkMinimum /\ opts.checkMaximum
  /\ generator = "String Length" =>
       opts.checkMinimumLength /\ opts.checkMaximumLength

\* C2: single fault. The data of every record returned by the data type,
\* enum, number limit, required key and string length generators (all checks
\* requested) validates against the schema with exactly one error, of the
\* generator's category.
C2_SingleFault ==
  ( /\ origin \in {"DataType", "Enum", "Number Range", "Required Key Missing",
                   "String Length"}
    /\ AllChecks(origin, generatorOptions)
    /\ Supported(schema)
    /\ Validated )
  => /\ Returns(1)
     /\ result.errors[1].errorType \in CategoryErrors(origin)

\* the value yields zero errors against alternative i of the oneOf list
Satisfies(d, alternatives, i, opts) ==
  LET r == validateDataAgainstSchema(d, <<alternatives[i]>>, opts, "$")
  IN ~r.thrown /\ Len(r.errors) = 0

\* C3: oneOf semantics. Under a schema with oneOf, a value that yields zero
\* errors against at least one alternative validates with an empty list, and
\* any other value validates with exactly one oneOf error.
C3_OneOfSemantics ==
  (Validated /\ schema.oneOf # <<>> /\ data # Undefined)
  => IF \E i \in 1..Len(schema.oneOf[1]) :
          Satisfies(data, schema.oneOf[1], i, options)
     THEN Returns(0)
     ELSE Returns(1) /\ result.errors[1].errorType = "oneOf Error"

\* C4: the validator never throws. Every validation of a JSON value against
\* a schema of the supported subset returns a list of error records.
C4_NeverThrows ==
  (Validated /\ Supported(schema)) => ~result.thrown

\* a key counts as missing when the object holds no value, or null, for it
Missing(d, k) == Prop(d, k) \in {Undefined, Null}

MissingRequired(d, s) == SelectSeq(s.required[1], LAMBDA k : Missing(d, k))

IsObjectCase ==
  /\ Validated
  /\ Plain(schema)
  /\ schema.type = DataTypeOBJECT
  /\ schema.properties # <<>>
  /\ schema.required # <<>>
  /\ data[1] = "object"

\* C5: required-key short-circuit. An object that misses (null or absent)
\* keys listed in required validates with exactly one required-key error per
\* missing key and nothing else, whatever its other keys and the options.
C5_RequiredShortCircuit ==
  (IsObjectCase /\ Len(MissingRequired(data, schema)) > 0)
  => /\ Returns(Len(MissingRequired(data, schema)))
     /\ \A i \in 1..Len(result.errors) :
          /\ result.errors[i].errorType = "Required Key Error"
          /\ result.errors[i].detail = MissingRequired(data, schema)[i]

\* the errors of the elements of an array, one element after the other
RECURSIVE ElementErrors(_, _, _, _)
ElementErrors(items, itemSchema, opts, i) ==
  IF i > Len(items) THEN <<>>
  ELSE validateDataAgainstSchema(items[i], itemSchema, opts, "$").errors
       \o ElementErrors(items, itemSchema, opts, i + 1)

\* the elements whose own validation reports errors
Faulty(items, itemSchema, opts) ==
  {i \in 1..Len(items) :
     LET r == validateDataAgainstSchema(items[i], itemSchema, opts, "$")
     IN r.thrown \/ Len(r.errors) > 0}

IsArrayCase ==
  /\ Validated
  /\ Plain(schema)
  /\ schema.type = DataTypeARRAY
  /\ data[1] = "array"

\* C6: array exhaustiveness. Validating an array returns the errors of all
\* its elements (as many errors as the elements report together), and an
\* error reported for an element is positioned at that element, not at the
\* array.
C6_ArrayExhaustive ==
  (IsArrayCase /\ Supported(schema))
  => /\ Returns(Len(ElementErrors(data[2], schema.items, options, 1)))
     /\ \A i \in 1..Len(result.errors) : result.errors[i].key # "$"

\* the type check of the dispatch lets the value through
PassesTypeCheck(d, s) ==
  \/ s.type = typeof(d)
  \/ s.type = DataTypeINTEGER /\ d[1] = "number" /\ d[2] % 10 = 0
  \/ s.type = DataTypeARRAY /\ d[1] = "array"

IsEnumCase ==
  /\ Validated
  /\ schema.oneOf = <<>>
  /\ schema.enum # <<>>
  /\ data # Undefined
  /\ PassesTypeCheck(data, schema)

\* C7: enum exactness. Under a schema with enum, a value that passes the
\* type check validates with an empty list exactly when it equals a member of
\* enum, and with a single enum error otherwise, whatever the schema's other
\* refinements.
C7_EnumExactness ==
  IsEnumCase
  => IF data \in SeqToSet(schema.enum[1])
     THEN Returns(0)
     ELSE Returns(1) /\ result.errors[1].errorType = "Enum Error"

\* a value that breaks a refinement of its schema and is a member of its enum
\* has been validated
C7_Witness ==
  /\ IsEnumCase
  /\ data \in SeqToSet(schema.enum[1])
  /\ \/ schema.minimum # <<>> /\ data[2] < schema.minimum[1]
     \/ schema.maxLength # <<>> /\ Len(data[2]) > schema.maxLength[1]
  /\ Returns(0)

IsNumericCase ==
  /\ Validated
  /\ Plain(schema)
  /\ IsNumeric(schema)
  /\ NumberFor(data, schema)

RangeErrors == {"Number Range Error", "Integer Range Error"}

\* C8: a bound of 0 is honored. Under minimum 0 every negative number, and
\* under maximum 0 every positive number, is reported out of range.
C8_ZeroBound ==
  ( /\ IsNumericCase
    /\ \/ schema.minimum = <<0>> /\ data[2] < 0
       \/ schema.maximum = <<0>> /\ data[2] > 0 )
  => Returns(1) /\ result.errors[1].errorType \in RangeErrors

\* C9: range boundary inclusivity. Under minimum m and maximum M the values
\* m and M validate with no error, every value below m or above M with a
\* non-empty list.
C9_BoundaryInclusive ==
  ( /\ IsNumericCase
    /\ schema.minimum # <<>>
    /\ schema.maximum # <<>>
    /\ schema.minimum[1] <= schema.maximum[1] )
  => /\ data[2] \in {schema.minimum[1], schema.maximum[1]} => Returns(0)
     /\ (data[2] < schema.minimum[1] \/ data[2] > schema.maximum[1])
          => ~result.thrown /\ Len(result.errors) > 0

\* C10: lack of data. An undefined or null value validated against a schema
\* yields a lack-of-data error, whatever the schema and the options.
C10_LackOfData ==
  (Validated /\ data \in {Undefined, Null})
  => Returns(1) /\ result.errors[1].errorType = "Lack of Data Error"

\* the paths at which the traversal meets a value that has no schema, in a
\* pass whose errors are returned as they are (the errors of the alternatives
\* of a oneOf are collapsed into the oneOf verdict)
RECURSIVE ExcessPaths(_, _, _)
ExcessPaths(d, sOpt, identifier) ==
  IF sOpt = NoSchema THEN {identifier}
  ELSE LET s == sOpt[1] IN
  IF d = Undefined \/ ~Plain(s) \/ ~PassesTypeCheck(d, s) THEN {}
  ELSE IF s.type = DataTypeARRAY
  THEN UNION {ExcessPaths(d[2][i], s.items, identifier) : i \in 1..Len(d[2])}
  ELSE IF /\ s.type = DataTypeOBJECT
          /\ d[1] = "object"
          /\ s.properties # <<>>
          /\ s.required # <<>> =>
               \A i \in 1..Len(s.required[1]) :
                 Prop(d, s.required[1][i]) # Undefined
  THEN UNION {ExcessPaths(d[2][k],
                IF IsKey(s.properties[1], k) THEN <<s.properties[1][k]>>
                ELSE NoSchema,
                identifier \o "." \o k) : k \in DOMAIN d[2]}
  ELSE {}

\* the value without the parts that have no schema
RECURSIVE Declared(_, _)
Declared(d, sOpt) ==
  IF sOpt = NoSchema THEN d
  ELSE LET s == sOpt[1] IN
  IF ~Plain(s) THEN d
  ELSE IF s.type = DataTypeARRAY /\ d[1] = "array"
  THEN IF s.items = NoSchema THEN Arr(<<>>)
       ELSE Arr([i \in 1..Len(d[2]) |-> Declared(d[2][i], s.items)])
  ELSE IF s.type = DataTypeOBJECT /\ d[1] = "object" /\ s.properties # <<>>
  THEN Obj([k \in DOMAIN d[2] \cap DOMAIN s.properties[1] |->
             Declared(d[2][k], <<s.properties[1][k]>>)])
  ELSE d

\* the kind and the path of each error of a list
Kinds(errors) ==
  [i \in 1..Len(errors) |->
     <<errors[i].errorType, errors[i].key, errors[i].detail>>]

ExcessErrors(errors) ==
  {errors[i].key : i \in {j \in 1..Len(errors) :
                            errors[j].errorType = "Excess of Data Error"}}

Lax == [strictValidation |-> FALSE]

IsRecordCase ==
  /\ Validated
  /\ origin \in Generators
  /\ ~result.thrown
  /\ Len(result.errors) > 0

\* C12: path symmetry. The errors that validating the data of a record of a
\* deficient generator reports carry the path of the record's key, for faults
\* inside arrays and inside nested objects too.
C12_PathSymmetry ==
  IsRecordCase
  => \A i \in 1..Len(result.errors) : result.errors[i].key = record.key

\* the value is an object of the schema that holds every declared key but
\* one, which is not required, at this node or at one node below it
RECURSIVE OneOptionalKeyRemoved(_, _)
OneOptionalKeyRemoved(d, s) ==
  IF s.oneOf # <<>>
  THEN \E i \in 1..Len(s.oneOf[1]) : OneOptionalKeyRemoved(d, s.oneOf[1][i])
  ELSE IF s.enum # <<>> THEN FALSE
  ELSE IF s.type = DataTypeARRAY
  THEN /\ d[1] = "array"
       /\ s.items # <<>>
       /\ \E i \in 1..Len(d[2]) : OneOptionalKeyRemoved(d[2][i], s.items[1])
  ELSE /\ s.type = DataTypeOBJECT
       /\ d[1] = "object"
       /\ s.properties # <<>>
       /\ \/ \E k \in DOMAIN s.properties[1] :
               /\ DOMAIN d[2] = DOMAIN s.properties[1] \ {k}
               /\ s.required # <<>> => k \notin SeqToSet(s.required[1])
          \/ /\ DOMAIN d[2] = DOMAIN s.properties[1]
             /\ \E k \in DOMAIN d[2] :
                  OneOptionalKeyRemoved(d[2][k], s.properties[1][k])

\* C13: optional key. Every record of getDataDeficientByOptionalKey is a
\* value of the schema with exactly one non-required key removed, and its
\* data validates against the schema with no error.
C13_OptionalKey ==
  (Validated /\ origin = "Optional Key Missing")
  => /\ Returns(0)
     /\ OneOptionalKeyRemoved(data, schema)

\* the child processes that were sent api test suite i
ForkedFor(i) ==
  {c \in 1..Len(childProcesses) : childProcesses[c].apiTestSuite = i}

\* C14: one worker per api endpoint to be tested. Once runTestSuite has run,
\* every api test suite whose apiEndpoint is to be tested has exactly one
\* child process that was sent it, wherever it sits in the test suite, and
\* the other api test suites have none.
C14_OneWorkerPerEndpoint ==
  runTestSuiteCalled
  => \A i \in 1..Len(testParams.apiTestSuites) :
       Cardinality(ForkedFor(i)) =
         IF toBeTested(testParams.apiTestSuites[i]) THEN 1 ELSE 0

\* the results of every api test suite to be tested are in the counter
AllResultsAdded ==
  \A i \in 1..Len(testParams.apiTestSuites) :
    toBeTested(testParams.apiTestSuites[i])
    => \E c \in ForkedFor(i) : childProcesses[c].status = "received"

\* the test suite holds an api endpoint to be tested
SomeToBeTested ==
  \E i \in 1..Len(testParams.apiTestSuites) :
    toBeTested(testParams.apiTestSuites[i])

\* C15: aggregation. When every forked worker reports its results, the test
\* summary is eventually displayed, exactly once, and only after the results
\* of every api endpoint to be tested have been added to the counter.
C15_Aggregation ==
  /\ SomeToBeTested => <>(testSummaries = 1)
  /\ [](testSummaries <= 1)
  /\ [](testSummaries = 1 => AllResultsAdded)

\* C16: verifyApiEndpoints. After verifyApiEndpoints(apiEndpoints) the list
\* holds exactly the endpoints of the original list whose httpMethod is
\* 'post', in their original order, whatever the number and the arrangement
\* of the other endpoints.
C16_OnlyPostEndpoints ==
  apiEndpointsVerified
  => apiEndpoints =
       SelectSeq(oasApiEndpoints,
                 LAMBDA apiEndpoint : apiEndpoint.httpMethod = "post")

\* C17: the core never mutates a schema. Whatever getMockData, the six
\* getDataDeficientBy* generators and validateDataAgainstSchema are called
\* with, and in whatever order, the schema tree they were handed is after the
\* call what it was before it.
C17_SchemaReadOnly == [][schema' = schema]_vars

\* C18: getMockData never throws. Whatever the schema (unknown or missing
\* type, unsupported format, unparsable pattern, object without properties,
\* array without items), getMockData returns a value.
C18_GetMockDataNeverThrows == origin = "mock" => data # ThrownValue

\* every node generation came to, and whose path leads to a value of the
\* overrides, holds that value; the path '$' is the overrides object itself
RECURSIVE Verbatim(_, _, _, _)
Verbatim(d, sOpt, jsonpath, overrides) ==
  IF jsonpath # "$" /\ JSONPath(jsonpath, overrides) # <<>>
  THEN d = JSONPath(jsonpath, overrides)[1]
  ELSE IF sOpt = NoSchema THEN TRUE
  ELSE LET s == sOpt[1] IN
    IF s.oneOf # <<>>
    THEN \/ Len(s.oneOf[1]) = 0
         \/ \E i \in 1..Len(s.oneOf[1]) :
              Verbatim(d, <<s.oneOf[1][i]>>, jsonpath, overrides)
    ELSE IF s.enum # <<>> THEN TRUE
    ELSE IF s.type = DataTypeOBJECT /\ s.properties # <<>> /\ d[1] = "object"
    THEN \A k \in DOMAIN s.properties[1] :
           Verbatim(Prop(d, k), <<s.properties[1][k]>>, jsonpath \o "." \o k,
                    overrides)
    ELSE IF s.type = DataTypeARRAY /\ d[1] = "array"
    THEN \A i \in 1..Len(d[2]) : Verbatim(d[2][i], s.items, jsonpath, overrides)
    ELSE TRUE

\* C19: override short-circuit. Whenever the path of the node being generated
\* leads to a value in the overrides, getMockData returns that value as it is
\* for the node, whether the node's schema carries oneOf, enum or a type, and
\* at every depth of the recursion.
C19_OverrideShortCircuit ==
  origin = "mock" => Verbatim(data, <<schema>>, "$", givenOverrides)

\* a key whose schema carries an enum has been generated with an override
\* that is no member of the enum
C19_Witness ==
  /\ origin = "mock"
  /\ schema.type = DataTypeOBJECT
  /\ schema.oneOf = <<>> /\ schema.enum = <<>>
  /\ schema.properties # <<>>
  /\ "a" \in DOMAIN schema.properties[1]
  /\ schema.properties[1]["a"].enum # <<>>
  /\ JSONPath("$.a", givenOverrides) = <<Str("Dino")>>
  /\ data[1] = "object"
  /\ Prop(data, "a") = Str("Dino")
  /\ ~EnumIsValid(Str("Dino"), schema.properties[1]["a"].enum[1])

\* a string has been validated by the string check of a schema with a format:
\* the schema is of type string and carries neither oneOf nor enum, which are
\* looked at before the type's own check
IsFormatCase ==
  /\ Validated
  /\ data[1] = "string"
  /\ schema.type = DataTypeSTRING
  /\ Plain(schema)
  /\ schema.format # ""

\* C20: unsupported format. The string check of a schema whose format is not
\* one of email, uuid, uri, ipv4, ipv6 never passes silently: whatever the
\* string, the result is not empty and holds a limited-support error.
C20_UnsupportedFormat ==
  (IsFormatCase /\ schema.format \notin SchemaFormats)
  => /\ ~result.thrown
     /\ Len(result.errors) > 0
     /\ \E i \in 1..Len(result.errors) :
          result.errors[i].errorType = "Limited Support Error"

\* a string that is not empty has been validated against a schema with an
\* unsupported format
C20_Witness ==
  /\ IsFormatCase
  /\ schema.format \notin SchemaFormats
  /\ Len(data[2]) > 0
  /\ Returns(1)
  /\ result.errors[1].errorType = "Limited Support Error"

\* a string has been validated by the pattern check of a string schema: no
\* format is set, and neither oneOf nor enum stands before the type's check
IsPatternCase ==
  /\ Validated
  /\ data[1] = "string"
  /\ schema.type = DataTypeSTRING
  /\ Plain(schema)
  /\ schema.format = ""
  /\ schema.pattern # ""

\* C21: invalid pattern. When schema.pattern does not compile and no format
\* is set, validating any string yields the invalid-pattern error ('OAS 3.0
\* Error') and never a 'Regex Mismatch Error'; a 'Regex Mismatch Error' is
\* produced only when the pattern compiles and the string does not match it.
C21_InvalidPattern ==
  IsPatternCase
  => /\ ~result.thrown
     /\ ~Compiles(schema.pattern)
        => /\ Returns(1)
           /\ result.errors[1].errorType = "OAS 3.0 Error"
     /\ (\E i \in 1..Len(result.errors) :
           result.errors[i].errorType = "Regex Mismatch Error")
        <=> (Compiles(schema.pattern) /\ ~RegexTest(schema.pattern, data[2]))

\* a string that matches the valid pattern of the model has been validated
\* against the pattern that does not compile
C21_Witness ==
  /\ IsPatternCase
  /\ ~Compiles(schema.pattern)
  /\ data[2] \in PatternMatches
  /\ Returns(1)
  /\ result.errors[1].errorType = "OAS 3.0 Error"

\* the received status code is in a class expected of the test case
InExpectedClass(testResult) ==
  IF testResult.testCase.kind = "positive"
  THEN testResult.statusCodes.received \div 100 = 2
  ELSE testResult.statusCodes.received \div 100 \in {4, 5}

\* the schemas of the response the test result was built from
SchemasOf(testResult) ==
  workerMessage.responseSchemas[testResult.statusCodes.received]

\* the validation of the response body was skipped or returned no errors
BodyClean(testResult) ==
  \/ testResult.skipValidation.responseBody
  \/ validateDataAgainstSchema(testResult.response.data,
       SchemasOf(testResult).content, DefaultOptions, "$").errors = <<>>

\* the validations of the response headers were skipped or returned no errors
HeadersClean(testResult) ==
  \/ testResult.skipValidation.responseHeaders
  \/ \A header \in DOMAIN SchemasOf(testResult).headers[1] :
       validateDataAgainstSchema(
         Prop(testResult.response.headers, header),
         <<SchemasOf(testResult).headers[1][header]>>, DefaultOptions,
         "$").errors = <<>>

\* C22: the final verdict of a test result is 'pass' exactly when the received
\* status code is in an expected class (2xx for a positive test case, 4xx or
\* 5xx for a negative one) and every validation of the response body and of
\* the response headers that was not skipped returned no errors; a failed
\* initial verdict gives a failed final verdict.
C22_FinalVerdict ==
  \A i \in 1..Len(workerTestResults) :
    LET testResult == workerTestResults[i] IN
    /\ testResult.testVerdict.final = "pass"
         <=> /\ InExpectedClass(testResult)
             /\ BodyClean(testResult)
             /\ HeadersClean(testResult)
    /\ testResult.testVerdict.initial = "fail"
         => testResult.testVerdict.final = "fail"

\* the test cases of the message, the positive ones first
TestCasesOfMessage ==
  workerMessage.positiveTestCases \o workerMessage.negativeTestCases

\* C23: the worker sends exactly one test result per test case of its
\* endpoint, as many as there are positive plus negative test cases, and
\* result i pairs test case i with the response to the request of that test
\* case, also when a request fails or times out after its retries.
C23_OneResultPerTestCase ==
  workerStep = "sent" =>
    /\ Len(workerSent[1]) = Len(TestCasesOfMessage)
    /\ \A i \in 1..Len(workerSent[1]) :
         /\ workerSent[1][i].testCase = TestCasesOfMessage[i]
         /\ workerSent[1][i].response.request = TestCasesOfMessage[i]

\* C24: the overrides are read-only to the generators: after getMockData and
\* after every getDataDeficientBy* call the overrides that were passed in
\* are as they were passed.
C24_OverridesReadOnly ==
  origin \in Generators \cup {"mock"} => overridesAfterCall = givenOverrides

\* the value has been validated by the type check of a schema: the schema is
\* there, the value is defined and no oneOf stands before the check
IsTypeCase ==
  /\ Validated
  /\ data # Undefined
  /\ schema.oneOf = <<>>

\* typeof value differs from schema.type, and the value is neither a whole
\* number under an integer schema nor an array under an array schema
TypeMismatch(d, s) ==
  /\ typeof(d) # s.type
  /\ ~(s.type = DataTypeINTEGER /\ HasType(d, DataTypeINTEGER))
  /\ ~(s.type = DataTypeARRAY /\ HasType(d, DataTypeARRAY))

IsStringCase ==
  /\ Validated
  /\ data[1] = "string"
  /\ schema.type = DataTypeSTRING
  /\ Plain(schema)

\* the schema with the first applicable string rule alone: the format, else
\* the pattern, else the two length bounds
FirstRuleOnly(s) ==
  IF s.format # "" THEN Formatted(s.format)
  ELSE IF s.pattern # "" THEN Patterned(s.pattern)
  ELSE Sized(s.minLength, s.maxLength)

\* the string satisfies the first applicable rule of the schema
SatisfiesFirstRule(str, s) ==
  IF s.format # ""
  THEN s.format \in SchemaFormats /\ ~FormatError(s.format, str)
  ELSE IF s.pattern # ""
  THEN Compiles(s.pattern) /\ RegexTest(s.pattern, str)
  ELSE ~LengthOutOfBounds(str, s.minLength, s.maxLength)

\* C26: string refinements are never combined. The result of validating a
\* string is the result of the first applicable rule alone (format, else
\* pattern, else minLength/maxLength), and a string that satisfies that rule
\* validates with no errors whatever the rules of lower priority say.
C26_FirstRuleOnly ==
  IsStringCase =>
    /\ ~result.thrown
    /\ result.errors =
         validateDataAgainstSchema(data, <<FirstRuleOnly(schema)>>, options,
                                   "$").errors
    /\ SatisfiesFirstRule(data[2], schema) => Returns(0)

\* a string longer than maxLength has been validated against a schema whose
\* format or pattern it satisfies, and no error came back
C26_Witness ==
  /\ IsStringCase
  /\ schema.format # "" \/ schema.pattern # ""
  /\ SatisfiesFirstRule(data[2], schema)
  /\ schema.maxLength # <<>>
  /\ Len(data[2]) > schema.maxLength[1]
  /\ Returns(0)

\* getMockData has produced a value for an integer or number schema whose
\* bounds, where both are set, leave room for a value
IsMockNumberCase ==
  /\ origin = "mock"
  /\ givenOverrides = NoOverrides
  /\ IsNumeric(schema)
  /\ Plain(schema)
  /\ (schema.minimum # <<>> /\ schema.maximum # <<>>) =>
       schema.minimum[1] <= schema.maximum[1]

\* C27: for an integer or number schema getMockData returns a number v with
\* minimum <= v wherever minimum is defined and v <= maximum wherever maximum
\* is defined, and v is a whole number under an integer schema.
C27_MockNumberInBounds ==
  IsMockNumberCase =>
    /\ data[1] = "number"
    /\ schema.minimum # <<>> => schema.minimum[1] <= data[2]
    /\ schema.maximum # <<>> => data[2] <= schema.maximum[1]
    /\ schema.type = DataTypeINTEGER => data[2] % 10 = 0

\* the values of the records of a list, in the order of the list
DatasOf(list) == [i \in 1..Len(list) |-> list[i].data]

\* getDataDeficientByNumberLimit has been called for an integer or number
\* leaf, with no overrides
IsNumberLimitCase ==
  /\ origin = "Number Range"
  /\ givenOverrides = NoOverrides
  /\ IsNumeric(schema)
  /\ schema.oneOf = <<>>

\* what the call returned: the draws of Math.random() play no part at a leaf
NumberLimitRecords ==
  getDataDeficientByNumberLimit(<<schema>>, "$", givenOverrides,
    generatorOptions, [i \in 1..RandomPeriod |-> 0]).list

\* C28: for an integer or number leaf getDataDeficientByNumberLimit returns a
\* record of value minimum - 1 when minimum is defined and checkMinimum is
\* set, a record of value maximum + 1 when maximum is defined and
\* checkMaximum is set, and no other record, whatever the value of a defined
\* bound.
C28_NumberLimitRecords ==
  IsNumberLimitCase =>
    /\ DatasOf(NumberLimitRecords) =
         (IF generatorOptions.checkMinimum /\ schema.minimum # <<>>
          THEN <<Num(schema.minimum[1] - 10)>> ELSE <<>>)
         \o (IF generatorOptions.checkMaximum /\ schema.maximum # <<>>
             THEN <<Num(schema.maximum[1] + 10)>> ELSE <<>>)
    /\ \E i \in 1..Len(NumberLimitRecords) : record = NumberLimitRecords[i]

DataTypes ==
  {DataTypeINTEGER, DataTypeNUMBER, DataTypeSTRING, DataTypeOBJECT,
   DataTypeARRAY, DataTypeBOOLEAN}

\* a schema with no schema below it
IsLeaf(s) == s.oneOf = <<>> /\ s.items = <<>> /\ s.properties = <<>>

\* getDataDeficientByDataType has been called, with no overrides, for a leaf
\* schema of one of the six types, or for a schema with schemas below it
\* that did not make the call throw
IsDataTypeCase ==
  /\ origin = "DataType"
  /\ givenOverrides = NoOverrides
  /\ schema.oneOf = <<>>
  /\ schema.type \in DataTypes
  /\ IsLeaf(schema) \/ data # ThrownValue

\* the records the call returned for the node itself: those of the nodes
\* below it carry a longer key
OwnDataTypeRecords ==
  SelectSeq(
    getDataDeficientByDataType(<<schema>>, "$", givenOverrides,
      NoGeneratorOptions, [i \in 1..RandomPeriod |-> 0]).list,
    LAMBDA r : r.key = "$")

\* the dummy shapes that are deficient for a schema of type t, in the order
\* of the dummies
DeficientShapes(t) ==
  CASE t = DataTypeINTEGER ->
         <<DataTypeNUMBER, DataTypeSTRING, DataTypeOBJECT, DataTypeARRAY,
           DataTypeBOOLEAN>>
    [] t = DataTypeNUMBER ->
         <<DataTypeSTRING, DataTypeOBJECT, DataTypeARRAY, DataTypeBOOLEAN>>
    [] t = DataTypeSTRING -> <<DataTypeOBJECT, DataTypeARRAY>>
    [] t = DataTypeOBJECT ->
         <<DataTypeINTEGER, DataTypeNUMBER, DataTypeSTRING, DataTypeBOOLEAN>>
    [] t = DataTypeARRAY ->
         <<DataTypeINTEGER, DataTypeNUMBER, DataTypeSTRING, DataTypeOBJECT,
           DataTypeBOOLEAN>>
    [] t = DataTypeBOOLEAN ->
         <<DataTypeINTEGER, DataTypeNUMBER, DataTypeSTRING, DataTypeOBJECT,
           DataTypeARRAY>>

\* C29: for a schema of type T getDataDeficientByDataType returns, for the
\* node itself, exactly one record per dummy shape D other than T, leaving
\* out integer for a number schema, integer, number and boolean for a string
\* schema and array for an object schema; the value of the record has the
\* shape D and never the type T.
C29_DataTypeRecords ==
  IsDataTypeCase =>
    /\ Len(OwnDataTypeRecords) = Len(DeficientShapes(schema.type))
    /\ \A i \in 1..Len(OwnDataTypeRecords) :
         /\ HasType(OwnDataTypeRecords[i].data, DeficientShapes(schema.type)[i])
         /\ ~HasType(OwnDataTypeRecords[i].data, schema.type)
         /\ OwnDataTypeRecords[i].deficiency = "DataType"
    /\ record.key = "$" =>
         \E i \in 1..Len(OwnDataTypeRecords) : record = OwnDataTypeRecords[i]

\* getMockData has been called, with no overrides, for an array schema that
\* carries neither oneOf nor enum
IsMockArrayCase ==
  /\ origin = "mock"
  /\ givenOverrides = NoOverrides
  /\ schema.type = DataTypeARRAY
  /\ Plain(schema)

\* the values getMockData can produce for the items of the schema
MockItems ==
  {getMockData(schema.items, "$", NoOverrides, rnd, pos) :
     rnd \in RandomVectors, pos \in 0..(RandomPeriod - 1)}

\* C30: getMockData on an array schema returns an array of 1 to 10 elements,
\* each generated from items, and every length from 1 to 10 is the length
\* under some draw of Math.random().
C30_MockArrayLength ==
  IsMockArrayCase =>
    /\ data[1] = "array"
    /\ Len(data[2]) \in 1..10
    /\ \A i \in 1..Len(data[2]) : data[2][i] \in MockItems
    /\ \A n \in 1..10 :
         \E r \in 0..(RandomSteps - 1) : lengthOfMockArray(r) = n

====
